---- MODULE Spec2Model ----
(***************************************************************************)
(* Tracking and lane-aware collision-risk engine of DriveWise.             *)
(*                                                                         *)
(* KalmanTracker (plugins/kalman_tracker.py) is modelled as a state        *)
(* machine whose single operation is update(detections).  Pixel boxes are  *)
(* <<x1, y1, x2, y2>>.  Python's 0-based list indices are 1-based here.     *)
(*                                                                         *)
(* Numbers.  The filter state is float32 in the source.  Here a position   *)
(* or velocity is an integer count of 1/FP pixel and a covariance entry is *)
(* an integer, both rounded toward zero after a division.  An IoU is the   *)
(* exact fraction <<intersection, union>>; sums and comparisons of IoUs    *)
(* and costs are exact (cross-multiplied).  A confidence is an integer     *)
(* percentage.                                                             *)
(***************************************************************************)
EXTENDS Integers, Sequences, FiniteSets, TLC

VARIABLES
    trackers,          \* KalmanTracker.trackers: sequence of FastKalmanFilter
    next_id,           \* KalmanTracker.next_id
    frame_count,       \* KalmanTracker.frame_count
    detections,        \* argument of the last update() call
    predicted_bboxes,  \* update(): predicted_bboxes of the last call
    solver_pairs,      \* _fast_associate(): zip(det_indices, trk_indices)
    matches,           \* update(): matches of the last call
    unmatched_dets,    \* update(): unmatched_dets of the last call
    unmatched_trks,    \* update(): unmatched_trks of the last call
    tracked_objects,   \* value returned by the last update() call
    before,            \* trackers as they were when the last call began
    after_update,      \* trackers of the last call after "Update matched trackers"
    assigned_ids,      \* history: every id given to a track, in order
    evicted_ids,       \* history: ids of the tracks removed so far
    assoc_in,          \* association step alone: its detection and track boxes
    assoc_out,         \* association step alone: its result (done: it has run)
    vehicle_history,   \* IntelligentCollisionPredictor.vehicle_history
    ego_lane_history,  \* SimpleLaneDetector.ego_lane_history
    result,            \* value returned by the last analyze_collision_risk() call
    analyses,          \* its threat_analysis of every vehicle, in input order
    risk_calls,        \* number of analyze_collision_risk() calls made
    risk_objects,      \* tracked_objects argument of the last call
    absent_frames,     \* history: per vehicle_history key, calls since it was last analyzed
    assess_in,         \* threat assessment alone: its arguments
    assess_out,        \* threat assessment alone: its result (done: it has run)
    frame_widths,      \* history: widths of the frames given to analyze_collision_risk()
    iou_in,            \* _calculate_iou_fast alone: its two boxes
    iou_out,           \* _calculate_iou_fast alone: its results (done: it has run)
    track_obj,         \* a TrackedObject of modules/analyzers/tracker.py
    clock,             \* time.time(), in ticks
    rt_pc,             \* PerformanceOptimizedProcessor.run(): where the thread is
    running,           \* PerformanceOptimizedProcessor.running
    camera,            \* PerformanceOptimizedProcessor.camera: "none", "open", "released"
    weather_running,   \* EnhancedWeatherImpactAnalyzer.running
    last_analysis,     \* EnhancedWeatherImpactAnalyzer.last_analysis (None: <<>>)
    llm_pending,       \* _update_warning_async coroutines scheduled and not finished
    frames_read,       \* frames camera.read() has returned so far
    analysis_data,     \* payloads of frame_processed.emit(), one per frame read
                       \* (<<>> for a frame whose processing raised)
    stop_called,       \* stop() has been called
    reads_after_stop   \* history: frames read after stop() returned

tracker_vars == <<trackers, next_id, frame_count, detections, predicted_bboxes,
                  solver_pairs, matches, unmatched_dets, unmatched_trks,
                  tracked_objects, before, after_update, assigned_ids, evicted_ids>>

assoc_vars == <<assoc_in, assoc_out>>

risk_vars == <<vehicle_history, ego_lane_history, result, analyses, risk_calls,
               risk_objects, absent_frames, frame_widths>>

assess_vars == <<assess_in, assess_out>>

iou_vars == <<iou_in, iou_out>>

object_vars == <<track_obj, clock>>

loop_vars == <<rt_pc, running, camera, weather_running, last_analysis, llm_pending,
               frames_read, analysis_data, stop_called, reads_after_stop>>

vars == <<tracker_vars, assoc_vars, risk_vars, assess_vars, iou_vars, object_vars, loop_vars>>

(***************************************************************************)
(* Program constants                                                       *)
(***************************************************************************)
max_age == 5
min_hits == 2
\* iou_threshold = 0.3 = IouThresholdNum / IouThresholdDen
IouThresholdNum == 3
IouThresholdDen == 10
\* detections[det_idx]['confidence'] > 0.5, as a percentage
MinConfidence == 50
\* P = eye(4) * 1000, Q = eye(4) * 1, R = eye(2) * 100
P0 == 1000
Q == 1
R == 100

(***************************************************************************)
(* Bounds of the model                                                     *)
(***************************************************************************)
\* frames fed to the tracker in a run of Spec / of SpecDense
MaxFrames == 8
MaxDenseFrames == 3
\* longest list of boxes given to the association step in SpecAssoc
MaxAssocLen == 2
\* sub-pixel resolution of the filter state (even: a box centre is a half pixel)
FP == 2 * 8

(***************************************************************************)
(* Arithmetic helpers                                                      *)
(***************************************************************************)
Max(a, b) == IF a >= b THEN a ELSE b
Min(a, b) == IF a <= b THEN a ELSE b
Abs(a) == IF a >= 0 THEN a ELSE -a
\* Python int(): n / d rounded toward zero (d > 0)
Trunc(n, d) == IF n >= 0 THEN n \div d ELSE -((-n) \div d)
Range(s) == {s[i] : i \in 1..Len(s)}

\* Fractions <<numerator, denominator>> with denominator > 0
FracAdd(p, q) == <<p[1] * q[2] + q[1] * p[2], p[2] * q[2]>>
FracLeq(p, q) == p[1] * q[2] <= q[1] * p[2]
FracLess(p, q) == p[1] * q[2] < q[1] * p[2]

(***************************************************************************)
(* FastKalmanFilter                                                        *)
(* F, Q, R, H and the initial P treat the x and the y axis alike and keep  *)
(* them apart, so the 4x4 covariance is two equal 2x2 blocks               *)
(* [[pxx, pxv], [pxv, pvv]]; P holds <<pxx, pxv, pvv>>.                     *)
(***************************************************************************)
FastKalmanFilter(bbox) ==
    [state |-> <<((bbox[1] + bbox[3]) * FP) \div 2,
                 ((bbox[2] + bbox[4]) * FP) \div 2, 0, 0>>,
     P |-> <<P0, 0, P0>>,
     bbox |-> bbox,
     age |-> 0,
     hits |-> 1,
     time_since_update |-> 0]

\* FastKalmanFilter.predict: state = F state, P = F P F' + Q
\* predict() that leaves the age alone
KfPredictKeepsAge(t) ==
    [t EXCEPT !.state = <<t.state[1] + t.state[3], t.state[2] + t.state[4],
                          t.state[3], t.state[4]>>,
              !.P = <<t.P[1] + 2 * t.P[2] + t.P[3] + Q, t.P[2] + t.P[3], t.P[3] + Q>>,
              !.time_since_update = t.time_since_update + 1]

KfPredict(t) ==
    [t EXCEPT !.state = <<t.state[1] + t.state[3], t.state[2] + t.state[4],
                          t.state[3], t.state[4]>>,
              !.P = <<t.P[1] + 2 * t.P[2] + t.P[3] + Q, t.P[2] + t.P[3], t.P[3] + Q>>,
              !.age = t.age + 1,
              !.time_since_update = t.time_since_update + 1]

\* FastKalmanFilter.update: K = P H' / S, state += K y, P = (I - K H) P
KfUpdate(t, bbox) ==
    LET zx == ((bbox[1] + bbox[3]) * FP) \div 2
        zy == ((bbox[2] + bbox[4]) * FP) \div 2
        yx == zx - t.state[1]
        yy == zy - t.state[2]
        S  == t.P[1] + R
    IN  [t EXCEPT !.state = <<t.state[1] + Trunc(t.P[1] * yx, S),
                              t.state[2] + Trunc(t.P[1] * yy, S),
                              t.state[3] + Trunc(t.P[2] * yx, S),
                              t.state[4] + Trunc(t.P[2] * yy, S)>>,
                  !.P = <<(R * t.P[1]) \div S, (R * t.P[2]) \div S,
                          t.P[3] - (t.P[2] * t.P[2]) \div S>>,
                  !.bbox = bbox,
                  !.hits = t.hits + 1,
                  !.time_since_update = 0]

\* FastKalmanFilter.get_bbox
GetBbox(t) ==
    IF t.time_since_update > 0
    THEN LET cx2 == 2 * t.state[1]
             cy2 == 2 * t.state[2]
             w == (t.bbox[3] - t.bbox[1]) * FP
             h == (t.bbox[4] - t.bbox[2]) * FP
         IN  <<Trunc(cx2 - w, 2 * FP), Trunc(cy2 - h, 2 * FP),
               Trunc(cx2 + w, 2 * FP), Trunc(cy2 + h, 2 * FP)>>
    ELSE t.bbox

(***************************************************************************)
(* KalmanTracker._calculate_iou_fast: the IoU as an exact fraction         *)
(***************************************************************************)
\* the intersection over the area of the first box alone
CalculateIouOverFirst(bbox1, bbox2) ==
    LET x1 == Max(bbox1[1], bbox2[1])
        y1 == Max(bbox1[2], bbox2[2])
        x2 == Min(bbox1[3], bbox2[3])
        y2 == Min(bbox1[4], bbox2[4])
    IN  IF x2 <= x1 \/ y2 <= y1
        THEN <<0, 1>>
        ELSE <<(x2 - x1) * (y2 - y1), (bbox1[3] - bbox1[1]) * (bbox1[4] - bbox1[2])>>

CalculateIouFast(bbox1, bbox2) ==
    LET x1 == Max(bbox1[1], bbox2[1])
        y1 == Max(bbox1[2], bbox2[2])
        x2 == Min(bbox1[3], bbox2[3])
        y2 == Min(bbox1[4], bbox2[4])
    IN  IF x2 <= x1 \/ y2 <= y1
        THEN <<0, 1>>
        ELSE LET intersection == (x2 - x1) * (y2 - y1)
                 area1 == (bbox1[3] - bbox1[1]) * (bbox1[4] - bbox1[2])
                 area2 == (bbox2[3] - bbox2[1]) * (bbox2[4] - bbox2[2])
                 union == area1 + area2 - intersection
             IN  IF union > 0 THEN <<intersection, union>> ELSE <<0, 1>>

\* iou_matrix[d_idx, t_idx] >= self.iou_threshold
MeetsIouThresholdHalf(iou) == 2 * iou[1] >= iou[2]
MeetsIouThreshold(iou) == IouThresholdDen * iou[1] >= IouThresholdNum * iou[2]

\* iou_matrix: one row per detection box, one column per predicted track box
IouMatrix(dets, trks) ==
    [d \in 1..Len(dets) |-> [t \in 1..Len(trks) |-> CalculateIouFast(dets[d], trks[t])]]

\* cost_matrix = 1 - iou_matrix
Cost(iou) == <<iou[2] - iou[1], iou[2]>>

(***************************************************************************)
(* scipy.optimize.linear_sum_assignment(cost_matrix): a one-to-one pairing *)
(* of min(#rows, #columns) pairs whose total cost is minimal, returned     *)
(* sorted by row.  Which of several minimal pairings is returned is the   *)
(* solver's choice: every minimal pairing is a possible result.            *)
(***************************************************************************)
\* a set of <<d, t>> pairs as the sequence sorted by d
PairSeq(S) ==
    [i \in 1..Cardinality(S) |->
        CHOOSE p \in S : Cardinality({q \in S : q[1] < p[1]}) = i - 1]

\* all one-to-one pairings of min(nd, nt) pairs
Pairings(nd, nt) ==
    IF nd <= nt
    THEN {PairSeq({<<d, f[d]>> : d \in 1..nd}) :
            f \in {g \in [1..nd -> 1..nt] :
                     \A a, b \in 1..nd : a # b => g[a] # g[b]}}
    ELSE {PairSeq({<<f[t], t>> : t \in 1..nt}) :
            f \in {g \in [1..nt -> 1..nd] :
                     \A a, b \in 1..nt : a # b => g[a] # g[b]}}

RECURSIVE TotalCost(_, _)
TotalCost(iou, pairs) ==
    IF pairs = <<>> THEN <<0, 1>>
    ELSE FracAdd(Cost(iou[Head(pairs)[1]][Head(pairs)[2]]), TotalCost(iou, Tail(pairs)))

\* the pairing that takes the highest-IoU pair first, then the next among the rest
RECURSIVE GreedyPairs(_, _, _)
GreedyPairs(iou, ds, ts) ==
    IF ds = {} \/ ts = {} THEN {}
    ELSE LET best == CHOOSE p \in ds \X ts :
                        \A q \in ds \X ts :
                           \/ FracLess(iou[q[1]][q[2]], iou[p[1]][p[2]])
                           \/ /\ ~FracLess(iou[p[1]][p[2]], iou[q[1]][q[2]])
                              /\ (p[1] < q[1] \/ (p[1] = q[1] /\ p[2] <= q[2]))
         IN  {best} \cup GreedyPairs(iou, ds \ {best[1]}, ts \ {best[2]})

GreedyAssignment(iou, nd, nt) == {PairSeq(GreedyPairs(iou, 1..nd, 1..nt))}

LinearSumAssignment(iou, nd, nt) ==
    {p \in Pairings(nd, nt) :
        \A q \in Pairings(nd, nt) : FracLeq(TotalCost(iou, p), TotalCost(iou, q))}

(***************************************************************************)
(* KalmanTracker._fast_associate, given the solver's pairing               *)
(***************************************************************************)
\* matches: the solver's pairs with an IoU of at least one half
FilterMatchesAtHalf(iou, pairs) ==
    SelectSeq(pairs, LAMBDA p : 2 * iou[p[1]][p[2]][1] >= iou[p[1]][p[2]][2])

\* matches: the solver's pairs that meet the IoU threshold
FilterMatches(iou, pairs) ==
    SelectSeq(pairs, LAMBDA p : MeetsIouThreshold(iou[p[1]][p[2]]))

\* list(range(n)), 1-based
IndexList(n) == [i \in 1..n |-> i]

\* [i for i in range(n) if i not in matched]
Unmatched(n, matched) == SelectSeq(IndexList(n), LAMBDA i : i \notin matched)

FastAssociateWrongUnmatched(dets, trks, pairs) ==
    LET m == FilterMatches(IouMatrix(dets, trks), pairs)
    IN  [matches |-> m,
         unmatched_dets |-> Unmatched(Len(dets), {p[1] : p \in Range(pairs)}),
         unmatched_trks |-> Unmatched(Len(trks), {p[2] : p \in Range(pairs)})]

FastAssociate(dets, trks, pairs) ==
    IF Len(trks) = 0
    THEN [matches |-> <<>>, unmatched_dets |-> IndexList(Len(dets)),
          unmatched_trks |-> <<>>]
    ELSE IF Min(Len(dets), Len(trks)) > 0
    THEN LET m == FilterMatches(IouMatrix(dets, trks), pairs)
         IN  [matches |-> m,
              unmatched_dets |-> Unmatched(Len(dets), {p[1] : p \in Range(m)}),
              unmatched_trks |-> Unmatched(Len(trks), {p[2] : p \in Range(m)})]
    ELSE [matches |-> <<>>, unmatched_dets |-> IndexList(Len(dets)),
          unmatched_trks |-> IndexList(Len(trks))]

\* the pairings the solver may return for these boxes (none asked for when a side is empty)
SolverResults(dets, trks) ==
    IF Len(dets) > 0 /\ Len(trks) > 0
    THEN LinearSumAssignment(IouMatrix(dets, trks), Len(dets), Len(trks))
    ELSE {<<>>}

\* update(): "Fast assignment using IoU", lines 125-133
Associate(dets, trks, pairs) ==
    IF Len(trks) > 0 /\ Len(dets) > 0
    THEN FastAssociate(dets, trks, pairs)
    ELSE [matches |-> <<>>, unmatched_dets |-> IndexList(Len(dets)),
          unmatched_trks |-> IndexList(Len(trks))]

(***************************************************************************)
(* KalmanTracker.update, step by step                                      *)
(***************************************************************************)
\* "Predict all existing trackers"
PredictAll(trks) == [i \in 1..Len(trks) |-> KfPredict(trks[i])]

\* "Update matched trackers"
UpdateMatched(trks, dets, ms) ==
    [i \in 1..Len(trks) |->
        IF \E m \in Range(ms) : m[2] = i
        THEN LET m == CHOOSE m \in Range(ms) : m[2] = i
             IN  KfUpdate(trks[i], dets[m[1]].bbox)
        ELSE trks[i]]

\* a new tracker for one detection
NewTracker(det, id) ==
    [id |-> id, class_name |-> det.class_name, confidence |-> det.confidence]
        @@ FastKalmanFilter(det.bbox)

\* "Only track high-confidence detections"
SpawnsTrackAtHalf(det) == det.confidence >= MinConfidence
SpawnsTrack(det) == det.confidence > MinConfidence

\* "Create new trackers for unmatched detections": the trackers and next_id after it
RECURSIVE CreateNewReusingIds(_, _, _, _)
CreateNewReusingIds(trks, dets, udets, nid) ==
    IF udets = <<>> THEN [trackers |-> trks, next_id |-> nid]
    ELSE IF SpawnsTrack(dets[Head(udets)])
    THEN CreateNewReusingIds(Append(trks, NewTracker(dets[Head(udets)], Len(trks) + 1)),
                             dets, Tail(udets), Len(trks) + 2)
    ELSE CreateNewReusingIds(trks, dets, Tail(udets), nid)

RECURSIVE CreateNew(_, _, _, _)
CreateNew(trks, dets, udets, nid) ==
    IF udets = <<>> THEN [trackers |-> trks, next_id |-> nid]
    ELSE IF SpawnsTrack(dets[Head(udets)])
    THEN CreateNew(Append(trks, NewTracker(dets[Head(udets)], nid)),
                   dets, Tail(udets), nid + 1)
    ELSE CreateNew(trks, dets, Tail(udets), nid)

\* "Remove old trackers"
RemoveOldLate(trks) == SelectSeq(trks, LAMBDA t : t.time_since_update <= max_age + 1)
RemoveOld(trks) == SelectSeq(trks, LAMBDA t : t.time_since_update <= max_age)

\* "Generate output (only confirmed tracks)": the condition on a tracker
IsEmittedConfirmedOnly(t) == t.hits >= min_hits
IsEmitted(t) == t.hits >= min_hits \/ t.time_since_update = 0

\* the dictionary appended for one tracker (speed, a square root, is left out)
TrackedObj(t) ==
    LET bbox == GetBbox(t)
    IN  [track_id |-> t.id,
         bbox |-> bbox,
         class_name |-> t.class_name,
         confidence |-> t.confidence,
         center |-> <<(bbox[1] + bbox[3]) \div 2, (bbox[2] + bbox[4]) \div 2>>,
         velocity |-> <<t.state[3], t.state[4]>>,
         age |-> t.age,
         hits |-> t.hits,
         area |-> (bbox[3] - bbox[1]) * (bbox[4] - bbox[2])]

GenerateOutput(trks) ==
    LET kept == SelectSeq(trks, IsEmitted)
    IN  [i \in 1..Len(kept) |-> TrackedObj(kept[i])]

(***************************************************************************)
(* Inputs: the detections a frame may bring                                *)
(***************************************************************************)
BoxW == 2 * 2
BoxH == 2 * 1
BoxAt(x, y) == <<x, y, x + BoxW, y + BoxH>>
Det(x, y, conf, cls) == [bbox |-> BoxAt(x, y), confidence |-> conf, class_name |-> cls]

\* One object seen at two overlapping places (IoU 1/3) with two labels, or nothing
FrameInputs ==
    { <<>>,
      <<Det(0, 0, 90, "car")>>,
      <<Det(2, 0, 60, "truck")>> }

\* Up to two different detections of a pool, in either order
DetPool ==
    { Det(0, 0, 90, "car"), Det(1, 0, 50, "person"),
      Det(3, 0, 51, "bus"), Det(6, 1, 70, "truck") }

DenseInputs ==
    {<<>>} \cup {<<d>> : d \in DetPool}
           \cup {<<x[1], x[2]>> : x \in {y \in DetPool \X DetPool : y[1] # y[2]}}

\* Boxes for the association step alone
AssocBoxes == {BoxAt(0, 0), BoxAt(2, 0), BoxAt(3, 0), BoxAt(5, 0), <<2, 1, 5, 3>>}

BoxLists == UNION {[1..n -> AssocBoxes] : n \in 0..MaxAssocLen}

\* longest list of boxes given to the association step in SpecAssocWide
MaxWideLen == 2

\* four boxes 20 px wide in a row, each 10 or 11 px right of the one before: the
\* neighbours 10 px apart have IoU 1/3, those 11 px apart 9/31
WideBoxes == { <<0, 0, 20, 1>>, <<11, 0, 31, 1>>, <<21, 0, 41, 1>>, <<32, 0, 52, 1>> }

WideLists == UNION {[1..n -> WideBoxes] : n \in 0..MaxWideLen}

(***************************************************************************)
(* The tracker as a state machine                                          *)
(***************************************************************************)
TrackerInit ==
    /\ trackers = <<>>
    /\ next_id = 1
    /\ frame_count = 0
    /\ detections = <<>>
    /\ predicted_bboxes = <<>>
    /\ solver_pairs = <<>>
    /\ matches = <<>>
    /\ unmatched_dets = <<>>
    /\ unmatched_trks = <<>>
    /\ tracked_objects = <<>>
    /\ before = <<>>
    /\ after_update = <<>>
    /\ assigned_ids = <<>>
    /\ evicted_ids = {}

NoAssocResult ==
    [done |-> FALSE, pairs |-> <<>>, matches |-> <<>>,
     unmatched_dets |-> <<>>, unmatched_trks |-> <<>>]

AssocIdle ==
    /\ assoc_in = [dets |-> <<>>, trks |-> <<>>]
    /\ assoc_out = NoAssocResult

TrackIds(trks) == {trks[i].id : i \in 1..Len(trks)}

\* KalmanTracker.update(dets): what it does to the tracker
UpdateStep(dets) ==
    LET predicted == PredictAll(trackers)
        boxes == [i \in 1..Len(predicted) |-> GetBbox(predicted[i])]
        det_bboxes == [i \in 1..Len(dets) |-> dets[i].bbox]
    IN  \E pairs \in SolverResults(det_bboxes, boxes) :
          LET assoc == Associate(det_bboxes, boxes, pairs)
              updated == UpdateMatched(predicted, dets, assoc.matches)
              created == CreateNew(updated, dets, assoc.unmatched_dets, next_id)
              kept == RemoveOld(created.trackers)
          IN  /\ trackers' = kept
              /\ next_id' = created.next_id
              /\ frame_count' = frame_count + 1
              /\ detections' = dets
              /\ predicted_bboxes' = boxes
              /\ solver_pairs' = pairs
              /\ matches' = assoc.matches
              /\ unmatched_dets' = assoc.unmatched_dets
              /\ unmatched_trks' = assoc.unmatched_trks
              /\ tracked_objects' = GenerateOutput(kept)
              /\ before' = trackers
              /\ after_update' = updated
              /\ assigned_ids' = assigned_ids \o
                    [i \in 1..(Len(created.trackers) - Len(updated)) |->
                        created.trackers[Len(updated) + i].id]
              /\ evicted_ids' = evicted_ids \cup
                    (TrackIds(created.trackers) \ TrackIds(kept))

\* KalmanTracker.update(dets)
Update(dets) ==
    /\ UpdateStep(dets)
    /\ UNCHANGED <<assoc_vars, risk_vars, assess_vars, iou_vars, object_vars, loop_vars>>

\* a frame of the sparse input set
Frame ==
    /\ frame_count < MaxFrames
    /\ \E dets \in FrameInputs : Update(dets)

\* a frame of the dense input set
DenseFrame ==
    /\ frame_count < MaxDenseFrames
    /\ \E dets \in DenseInputs : Update(dets)

\* the association step of update() on a pair of box lists
RunAssociate ==
    /\ ~assoc_out.done
    /\ \E pairs \in SolverResults(assoc_in.dets, assoc_in.trks) :
          assoc_out' = [done |-> TRUE, pairs |-> pairs]
                          @@ Associate(assoc_in.dets, assoc_in.trks, pairs)
    /\ UNCHANGED <<assoc_in, tracker_vars, risk_vars, assess_vars, iou_vars, object_vars, loop_vars>>

(***************************************************************************)
(* SimpleLaneDetector (modules/feature_extractors/lane_detector.py)        *)
(* A frame is [height, width, lines]: its shape and what cv2.HoughLinesP   *)
(* finds in its lower half, a sequence of segments <<x1, y1, x2, y2>>      *)
(* (<<>> stands for None).  An x given as "x2" below is twice the pixel    *)
(* value, so that the mean of two integers stays an integer.               *)
(***************************************************************************)
lane_change_threshold == 30
\* "Keep last 10 frames" of ego positions; a change is read over 5 of them
EgoHistoryLength == 10
EgoChangeWindow == 5

NewLaneInfo(frame) ==
    [ego_lane_id |-> 0,
     lane_boundaries |-> <<>>,
     lane_change_detected |-> FALSE,
     lane_change_direction |-> "none",
     frame_width |-> frame.width,
     frame_height |-> frame.height]

\* twice the x of a segment's middle
LineCenterX2(line) == line[1] + line[3]

\* _process_lane_lines: neither vertical nor with |slope| < 0.3 or > 3.0
IsLaneMarking(line) ==
    LET dx == line[3] - line[1]
        dy == line[4] - line[2]
    IN  /\ dx # 0
        /\ ~(10 * Abs(dy) < 3 * Abs(dx))
        /\ ~(Abs(dy) > 3 * Abs(dx))

\* max(lines, key=centre) and min(lines, key=centre): the first of equals
FirstMaxBy(lines) ==
    lines[CHOOSE i \in 1..Len(lines) :
            /\ \A j \in 1..Len(lines) : LineCenterX2(lines[j]) <= LineCenterX2(lines[i])
            /\ \A j \in 1..(i - 1) : LineCenterX2(lines[j]) < LineCenterX2(lines[i])]
FirstMinBy(lines) ==
    lines[CHOOSE i \in 1..Len(lines) :
            /\ \A j \in 1..Len(lines) : LineCenterX2(lines[j]) >= LineCenterX2(lines[i])
            /\ \A j \in 1..(i - 1) : LineCenterX2(lines[j]) > LineCenterX2(lines[i])]

\* SimpleLaneDetector._process_lane_lines
ProcessLaneLines(lines, lane_info) ==
    IF lines = <<>> THEN lane_info
    ELSE LET center_x == lane_info.frame_width \div 2
             marks == SelectSeq(lines, IsLaneMarking)
             left_lines == SelectSeq(marks, LAMBDA l : LineCenterX2(l) < 2 * center_x)
             right_lines == SelectSeq(marks, LAMBDA l : ~(LineCenterX2(l) < 2 * center_x))
         IN  IF left_lines # <<>> /\ right_lines # <<>>
             THEN [lane_info EXCEPT !.lane_boundaries =
                      Append(@, <<FirstMaxBy(left_lines), FirstMinBy(right_lines)>>)]
             ELSE lane_info

\* the index (1-based) of the first boundary pair with left_x <= x <= right_x, or 0
LaneContaining(x2, boundaries) ==
    LET hits == {i \in 1..Len(boundaries) :
                    /\ LineCenterX2(boundaries[i][1]) <= x2
                    /\ x2 <= LineCenterX2(boundaries[i][2])}
    IN  IF hits = {} THEN 0 ELSE CHOOSE i \in hits : \A j \in hits : i <= j

\* _detect_ego_position comparing the ego position with that of the frame before
DetectEgoPositionLastFrame(lane_info, history) ==
    IF lane_info.lane_boundaries = <<>>
    THEN [lane_info |-> lane_info, history |-> history]
    ELSE LET ego_x == lane_info.frame_width \div 2
             appended == Append(history, ego_x)
             hist == IF Len(appended) > EgoHistoryLength THEN Tail(appended) ELSE appended
             recent_movement ==
                 IF Len(hist) >= 2 THEN hist[Len(hist)] - hist[Len(hist) - 1] ELSE 0
         IN  [lane_info |->
                 IF Abs(recent_movement) > lane_change_threshold
                 THEN [lane_info EXCEPT !.lane_change_detected = TRUE,
                                        !.lane_change_direction =
                                            IF recent_movement > 0 THEN "right" ELSE "left"]
                 ELSE lane_info,
              history |-> hist]

\* SimpleLaneDetector._detect_ego_position: the lane info and the history after it
DetectEgoPosition(lane_info, history) ==
    IF lane_info.lane_boundaries = <<>>
    THEN [lane_info |-> lane_info, history |-> history]
    ELSE LET ego_x == lane_info.frame_width \div 2
             lane == LaneContaining(2 * ego_x, lane_info.lane_boundaries)
             located == IF lane # 0 THEN [lane_info EXCEPT !.ego_lane_id = lane - 1]
                        ELSE lane_info
             appended == Append(history, ego_x)
             hist == IF Len(appended) > EgoHistoryLength THEN Tail(appended) ELSE appended
             recent_movement ==
                 IF Len(hist) >= EgoChangeWindow
                 THEN hist[Len(hist)] - hist[Len(hist) - EgoChangeWindow + 1]
                 ELSE 0
         IN  [lane_info |->
                 IF Len(hist) >= EgoChangeWindow /\ Abs(recent_movement) > lane_change_threshold
                 THEN [located EXCEPT !.lane_change_detected = TRUE,
                                      !.lane_change_direction =
                                          IF recent_movement > 0 THEN "right" ELSE "left"]
                 ELSE located,
              history |-> hist]

\* SimpleLaneDetector.detect_lanes (roi_start = height // 2 is added to each y)
DetectLanes(frame, history) ==
    LET roi_start == frame.height \div 2
        adjusted == [i \in 1..Len(frame.lines) |->
                        <<frame.lines[i][1], frame.lines[i][2] + roi_start,
                          frame.lines[i][3], frame.lines[i][4] + roi_start>>]
        lane_info == IF frame.lines # <<>>
                     THEN ProcessLaneLines(adjusted, NewLaneInfo(frame))
                     ELSE NewLaneInfo(frame)
    IN  DetectEgoPosition(lane_info, history)

\* get_vehicle_lane without the default lane: the side of the frame decides
GetVehicleLaneBySide(bbox, lane_info) ==
    LET center_x2 == bbox[1] + bbox[3]
        lane == LaneContaining(center_x2, lane_info.lane_boundaries)
    IN  IF lane # 0 THEN lane - 1
        ELSE IF center_x2 < 2 * (lane_info.frame_width \div 2) THEN -1 ELSE 1

\* SimpleLaneDetector.get_vehicle_lane
GetVehicleLane(bbox, lane_info) ==
    IF lane_info.lane_boundaries = <<>> THEN 0
    ELSE LET center_x2 == bbox[1] + bbox[3]
             lane == LaneContaining(center_x2, lane_info.lane_boundaries)
         IN  IF lane # 0 THEN lane - 1
             ELSE IF center_x2 < 2 * (lane_info.frame_width \div 2) THEN -1 ELSE 1

(***************************************************************************)
(* IntelligentCollisionPredictor (modules/analyzers/collision_predictor.py)*)
(* A distance is in centimetres, a relative speed in 1/100 pixel per       *)
(* frame, a time to collision in 1/100 second, each rounded down; a        *)
(* history entry is twice the box centre.                                  *)
(***************************************************************************)
\* config.py is not among the sources; thresholds as in the specification's examples
CRITICAL_DISTANCE_THRESHOLD == 10
HIGH_RISK_DISTANCE_THRESHOLD == 15
MEDIUM_RISK_DISTANCE_THRESHOLD == 20
CRITICAL_TTC_THRESHOLD == 2
HIGH_RISK_TTC_THRESHOLD == 4

max_history_frames == 10
\* float('inf') as a time to collision
TtcInf == -1
\* "if len(self.vehicle_history[track_id]) >= 3"
MinMovementSamples == 3
\* "if abs(dx) > 20": threshold for lane change detection, pixels
VehicleLaneChangePixels == 20
\* "relative_speed < 2" in the same-lane case, pixels per frame
SlowApproachSpeed == 2

VehicleClasses == {"car", "truck", "bus", "motorcycle"}

\* str.lower() on the class labels that occur
Lower(class_name) ==
    CASE class_name = "Car" -> "car"
      [] class_name = "Truck" -> "truck"
      [] class_name = "Person" -> "person"
      [] OTHER -> class_name

\* "Filter for vehicle objects only", with every object taken for a vehicle
IsVehicleAnyClass(obj) == obj.class_name = obj.class_name

\* "Filter for vehicle objects only"
IsVehicle(obj) == Lower(obj.class_name) \in VehicleClasses

\* floor of the square root
RECURSIVE IsqrtBetween(_, _, _)
IsqrtBetween(n, lo, hi) ==
    IF lo >= hi THEN lo
    ELSE LET mid == (lo + hi + 1) \div 2
         IN  IF mid * mid <= n THEN IsqrtBetween(n, mid, hi) ELSE IsqrtBetween(n, lo, mid - 1)
Isqrt(n) == IsqrtBetween(n, 0, 46340)

\* _estimate_distance_fast; KNOWN_OBJECT_SIZES is not among the sources: the
\* fallback height 1.5 of the lookup stands for every class.  focal = 0.8 height.
EstimateDistanceFast(obj, frame_height) ==
    LET object_height_pixels == obj.bbox[4] - obj.bbox[2]
    IN  IF object_height_pixels <= 0 THEN 5000
        ELSE Max(100, Min((150 * frame_height * 8) \div (10 * object_height_pixels), 10000))

\* _analyze_vehicle_movement: the history of the track after the append
AppendHistory(history, track_id, bbox) ==
    LET current_center == <<bbox[1] + bbox[3], bbox[2] + bbox[4]>>
        old == IF track_id \in DOMAIN history THEN history[track_id] ELSE <<>>
        appended == Append(old, current_center)
        kept == IF Len(appended) > max_history_frames THEN Tail(appended) ELSE appended
    IN  [id \in DOMAIN history \cup {track_id} |->
            IF id = track_id THEN kept ELSE history[id]]

\* _analyze_vehicle_movement: movement_info from the positions kept for the track
MovementInfo(positions) ==
    IF Len(positions) >= MinMovementSamples
    THEN LET dx2 == positions[Len(positions)][1] - positions[1][1]
             dy2 == positions[Len(positions)][2] - positions[1][2]
             horizontal == Abs(dx2) > Abs(dy2)
             changing == Abs(dx2) > 2 * VehicleLaneChangePixels
         IN  [movement_direction |->
                  IF horizontal THEN (IF dx2 > 0 THEN "right" ELSE "left")
                  ELSE (IF dy2 > 0 THEN "down" ELSE "up"),
              relative_speed |-> Isqrt(2500 * (dx2 * dx2 + dy2 * dy2)) \div Len(positions),
              is_approaching |-> ~horizontal /\ dy2 > 0,
              is_changing_lanes |-> changing,
              lane_change_direction |->
                  IF changing THEN (IF dx2 > 0 THEN "right" ELSE "left") ELSE "none"]
    ELSE [movement_direction |-> "unknown", relative_speed |-> 0,
          is_approaching |-> FALSE, is_changing_lanes |-> FALSE,
          lane_change_direction |-> "none"]

\* _calculate_intelligent_ttc: distance / (0.1 * speed), at least 0.1 s
CalculateIntelligentTtc(distance, movement) ==
    IF ~movement.is_approaching THEN TtcInf
    ELSE IF movement.relative_speed < 10 THEN TtcInf
    ELSE Max(10, (distance * 1000) \div movement.relative_speed)

TtcBelow(ttc, seconds) == ttc # TtcInf /\ ttc < 100 * seconds

\* _assess_actual_threat
AssessActualThreatAlways(vehicle_lane, lane_info, movement, distance, ttc) ==
    IF vehicle_lane = lane_info.ego_lane_id /\ distance < 100 * MEDIUM_RISK_DISTANCE_THRESHOLD
    THEN [is_threat |-> TRUE, threat_type |-> "same_lane",
          threat_score |-> IF distance < 100 * HIGH_RISK_DISTANCE_THRESHOLD THEN 90 ELSE 50]
    ELSE [is_threat |-> FALSE, threat_type |-> "none", threat_score |-> 0]

\* the four cases with the oncoming one taken for either direction of the ego change
BaseThreatOncomingAnyDirection(vehicle_lane, lane_info, movement, distance) ==
    IF /\ vehicle_lane = -1
       /\ lane_info.lane_change_detected
       /\ distance < 100 * HIGH_RISK_DISTANCE_THRESHOLD
       /\ movement.is_approaching
    THEN [is_threat |-> TRUE, threat_type |-> "oncoming", threat_score |-> 95]
    ELSE [is_threat |-> FALSE, threat_type |-> "none", threat_score |-> 0]

\* _assess_actual_threat: cases 1 to 4, is_threat, threat_type and the score before the TTC
BaseThreatAssessment(vehicle_lane, lane_info, movement, distance) ==
    LET ego_lane == lane_info.ego_lane_id
        medium == distance < 100 * MEDIUM_RISK_DISTANCE_THRESHOLD
    IN  IF vehicle_lane = ego_lane
        THEN IF medium /\ (~movement.is_approaching
                           \/ movement.relative_speed < 100 * SlowApproachSpeed)
             THEN [is_threat |-> TRUE, threat_type |-> "same_lane",
                   threat_score |->
                       IF distance < 100 * CRITICAL_DISTANCE_THRESHOLD THEN 90
                       ELSE IF distance < 100 * HIGH_RISK_DISTANCE_THRESHOLD THEN 70
                       ELSE 50]
             ELSE [is_threat |-> FALSE, threat_type |-> "none", threat_score |-> 0]
        ELSE IF vehicle_lane = -1
        THEN IF /\ lane_info.lane_change_detected
                /\ lane_info.lane_change_direction = "left"
                /\ distance < 100 * HIGH_RISK_DISTANCE_THRESHOLD
                /\ movement.is_approaching
             THEN [is_threat |-> TRUE, threat_type |-> "oncoming", threat_score |-> 95]
             ELSE [is_threat |-> FALSE, threat_type |-> "none", threat_score |-> 0]
        ELSE IF Abs(vehicle_lane - ego_lane) = 1
        THEN IF /\ movement.is_changing_lanes
                /\ movement.lane_change_direction =
                      (IF vehicle_lane < ego_lane THEN "right" ELSE "left")
                /\ medium
             THEN [is_threat |-> TRUE, threat_type |-> "lane_change", threat_score |-> 60]
             ELSE [is_threat |-> FALSE, threat_type |-> "none", threat_score |-> 0]
        ELSE IF lane_info.lane_change_detected
        THEN IF /\ vehicle_lane = ego_lane
                      + (IF lane_info.lane_change_direction = "right" THEN 1 ELSE -1)
                /\ medium
             THEN [is_threat |-> TRUE, threat_type |-> "lane_change", threat_score |-> 70]
             ELSE [is_threat |-> FALSE, threat_type |-> "none", threat_score |-> 0]
        ELSE [is_threat |-> FALSE, threat_type |-> "none", threat_score |-> 0]

\* _assess_actual_threat, "Adjust threat score based on TTC", without the cap
AdjustForTtcUncapped(base, ttc) ==
    IF base.is_threat /\ TtcBelow(ttc, CRITICAL_TTC_THRESHOLD)
    THEN [base EXCEPT !.threat_score = @ + 20]
    ELSE IF base.is_threat /\ TtcBelow(ttc, HIGH_RISK_TTC_THRESHOLD)
    THEN [base EXCEPT !.threat_score = @ + 10]
    ELSE base

\* _assess_actual_threat: "Adjust threat score based on TTC"
AdjustForTtc(base, ttc) ==
    IF base.is_threat /\ TtcBelow(ttc, CRITICAL_TTC_THRESHOLD)
    THEN [base EXCEPT !.threat_score = Min(100, @ + 20)]
    ELSE IF base.is_threat /\ TtcBelow(ttc, HIGH_RISK_TTC_THRESHOLD)
    THEN [base EXCEPT !.threat_score = Min(100, @ + 10)]
    ELSE base

\* _assess_actual_threat
AssessActualThreat(vehicle_lane, lane_info, movement, distance, ttc) ==
    AdjustForTtc(BaseThreatAssessment(vehicle_lane, lane_info, movement, distance), ttc)

\* _analyze_vehicle_threat, given the track's positions after this frame's append
AnalyzeVehicleThreat(vehicle, lane_info, frame_height, positions) ==
    LET distance == EstimateDistanceFast(vehicle, frame_height)
        vehicle_lane == GetVehicleLane(vehicle.bbox, lane_info)
        movement == MovementInfo(positions)
        ttc == CalculateIntelligentTtc(distance, movement)
    IN  [object |-> vehicle, distance |-> distance, ttc |-> ttc,
         vehicle_lane |-> vehicle_lane]
          @@ AssessActualThreat(vehicle_lane, lane_info, movement, distance, ttc)
          @@ movement

\* the loop "for vehicle in vehicles": every threat_analysis and the history after it
RECURSIVE AnalyzeVehicles(_, _, _, _)
AnalyzeVehicles(vehicles, lane_info, frame_height, history) ==
    IF vehicles = <<>> THEN [analyses |-> <<>>, history |-> history]
    ELSE LET vehicle == Head(vehicles)
             hist == AppendHistory(history, vehicle.track_id, vehicle.bbox)
             one == AnalyzeVehicleThreat(vehicle, lane_info, frame_height,
                                         hist[vehicle.track_id])
             rest == AnalyzeVehicles(Tail(vehicles), lane_info, frame_height, hist)
         IN  [analyses |-> <<one>> \o rest.analyses, history |-> rest.history]

\* "Determine overall risk level", with > for >=
RiskLevelAbove(max_threat_score) ==
    IF max_threat_score > 80 THEN "Critical"
    ELSE IF max_threat_score > 60 THEN "High"
    ELSE IF max_threat_score > 40 THEN "Medium"
    ELSE IF max_threat_score > 20 THEN "Low"
    ELSE "None"

\* the risk levels from the lowest to the highest, and the place of one among them
RiskLevelOrder == <<"None", "Low", "Medium", "High", "Critical">>
RiskRank(level) == CHOOSE i \in 1..Len(RiskLevelOrder) : RiskLevelOrder[i] = level

\* "Determine overall risk level", with Medium from 60 and High from 70
RiskLevelShifted(max_threat_score) ==
    IF max_threat_score >= 80 THEN "Critical"
    ELSE IF max_threat_score >= 70 THEN "High"
    ELSE IF max_threat_score >= 60 THEN "Medium"
    ELSE IF max_threat_score >= 20 THEN "Low"
    ELSE "None"

\* "Determine overall risk level"
RiskLevel(max_threat_score) ==
    IF max_threat_score >= 80 THEN "Critical"
    ELSE IF max_threat_score >= 60 THEN "High"
    ELSE IF max_threat_score >= 40 THEN "Medium"
    ELSE IF max_threat_score >= 20 THEN "Low"
    ELSE "None"

\* "Track primary threat", with >= for >: the last of equal scores wins
RECURSIVE PrimaryThreatLastWins(_, _, _)
PrimaryThreatLastWins(threats, max_threat_score, primary) ==
    IF threats = <<>> THEN [threat_score |-> max_threat_score, primary_threat |-> primary]
    ELSE IF Head(threats).threat_score >= max_threat_score
    THEN PrimaryThreatLastWins(Tail(threats), Head(threats).threat_score,
                               <<Head(threats).object>>)
    ELSE PrimaryThreatLastWins(Tail(threats), max_threat_score, primary)

\* "Track primary threat": the running maximum and the vehicle that set it
RECURSIVE PrimaryThreat(_, _, _)
PrimaryThreat(threats, max_threat_score, primary) ==
    IF threats = <<>> THEN [threat_score |-> max_threat_score, primary_threat |-> primary]
    ELSE IF Head(threats).threat_score > max_threat_score
    THEN PrimaryThreat(Tail(threats), Head(threats).threat_score, <<Head(threats).object>>)
    ELSE PrimaryThreat(Tail(threats), max_threat_score, primary)

\* the recommendations without those for a vehicle ahead at Medium or High risk
RecommendationsWithoutFollowing(risk_level, threats, lane_info) ==
    LET same_lane == \E i \in 1..Len(threats) : threats[i].threat_type = "same_lane"
        oncoming == \E i \in 1..Len(threats) : threats[i].threat_type = "oncoming"
        lane_change == \E i \in 1..Len(threats) : threats[i].threat_type = "lane_change"
        If(c, text) == IF c THEN <<text>> ELSE <<>>
    IN  IF threats = <<>> THEN <<>>
        ELSE IF risk_level = "Critical"
        THEN <<"EMERGENCY BRAKE">>
               \o If(same_lane, "VEHICLE AHEAD TOO CLOSE")
               \o If(oncoming, "ABORT LANE CHANGE - ONCOMING TRAFFIC")
        ELSE IF risk_level = "High"
        THEN If(lane_change, "VEHICLE CHANGING LANES")
               \o If(oncoming, "CAUTION - ONCOMING DURING LANE CHANGE")
        ELSE IF risk_level = "Medium"
        THEN If(lane_change, "MONITOR ADJACENT LANES")
               \o If(lane_info.lane_change_detected, "LANE CHANGE IN PROGRESS")
        ELSE IF risk_level = "Low"
        THEN <<"STAY ALERT">>
               \o If(lane_info.lane_change_detected, "COMPLETE LANE CHANGE SAFELY")
        ELSE <<>>

\* _generate_intelligent_recommendations
GenerateIntelligentRecommendations(risk_level, threats, lane_info) ==
    LET same_lane == \E i \in 1..Len(threats) : threats[i].threat_type = "same_lane"
        oncoming == \E i \in 1..Len(threats) : threats[i].threat_type = "oncoming"
        lane_change == \E i \in 1..Len(threats) : threats[i].threat_type = "lane_change"
        If(c, text) == IF c THEN <<text>> ELSE <<>>
    IN  IF threats = <<>> THEN <<>>
        ELSE IF risk_level = "Critical"
        THEN <<"EMERGENCY BRAKE">>
               \o If(same_lane, "VEHICLE AHEAD TOO CLOSE")
               \o If(oncoming, "ABORT LANE CHANGE - ONCOMING TRAFFIC")
        ELSE IF risk_level = "High"
        THEN If(same_lane, "SLOW DOWN - FOLLOWING TOO CLOSE")
               \o If(lane_change, "VEHICLE CHANGING LANES")
               \o If(oncoming, "CAUTION - ONCOMING DURING LANE CHANGE")
        ELSE IF risk_level = "Medium"
        THEN If(same_lane, "MAINTAIN SAFE DISTANCE")
               \o If(lane_change, "MONITOR ADJACENT LANES")
               \o If(lane_info.lane_change_detected, "LANE CHANGE IN PROGRESS")
        ELSE IF risk_level = "Low"
        THEN <<"STAY ALERT">>
               \o If(lane_info.lane_change_detected, "COMPLETE LANE CHANGE SAFELY")
        ELSE <<>>

\* the result dictionary with total_objects left at 0
InitialResultNoCount(objects) ==
    [risk_level |-> "None",
     threat_score |-> 0,
     primary_threat |-> <<>>,
     threatening_objects |-> <<>>,
     recommendations |-> <<>>,
     total_objects |-> 0,
     lane_info |-> <<>>,
     same_lane_threats |-> 0,
     oncoming_threats |-> 0,
     lane_change_threats |-> 0]

\* the result dictionary as initialised; None is the empty sequence
InitialResult(objects) ==
    [risk_level |-> "None",
     threat_score |-> 0,
     primary_threat |-> <<>>,
     threatening_objects |-> <<>>,
     recommendations |-> <<>>,
     total_objects |-> Len(objects),
     lane_info |-> <<>>,
     same_lane_threats |-> 0,
     oncoming_threats |-> 0,
     lane_change_threats |-> 0]

CountType(threats, type) == Cardinality({i \in 1..Len(threats) : threats[i].threat_type = type})

(***************************************************************************)
(* Inputs of the analyzer                                                  *)
(***************************************************************************)
MaxRiskCalls == 3
MaxLongRunCalls == 7
MaxMergeCalls == 3

\* a box of the given height around a centre
VBox(cx, cy, h) == <<cx - 10, cy - h \div 2, cx + 10, cy + h \div 2>>
Obj(id, cls, bbox) == [track_id |-> id, class_name |-> cls, bbox |-> bbox]

\* one tracked object: a vehicle of track 1 at 6 m (twice, 3 px apart), 12 m, 15 m,
\* 20 m or 30 m in the middle of the frame, a truck on the left, or a person
ObjectPool ==
    { Obj(1, "car", VBox(50, 50, 20)), Obj(1, "car", VBox(50, 53, 20)),
      Obj(1, "Car", VBox(50, 40, 10)), Obj(1, "car", VBox(50, 36, 8)),
      Obj(1, "car", VBox(50, 30, 6)), Obj(1, "car", VBox(50, 20, 4)),
      Obj(3, "truck", VBox(15, 50, 20)), Obj(2, "person", VBox(50, 50, 20)) }

\* the tracked objects of a frame: none, one, or two (two vehicles, a person and a
\* vehicle)
ObjectLists ==
    {<<>>} \cup {<<o>> : o \in ObjectPool}
           \cup { <<Obj(3, "truck", VBox(15, 50, 20)), Obj(1, "car", VBox(50, 50, 20))>>,
                  <<Obj(2, "person", VBox(50, 50, 20)), Obj(1, "car", VBox(50, 50, 20))>> }

\* what the Hough transform may find: nothing, or a left and a right marking and a flat edge
LinePool == { <<>>, <<<<20, 40, 40, 10>>, <<60, 10, 80, 40>>, <<10, 30, 90, 31>>>> }

Frames == [height : {100}, width : {100}, lines : LinePool]

(***************************************************************************)
(* The analyzer as a state machine                                         *)
(***************************************************************************)
RiskIdle ==
    /\ vehicle_history = <<>>
    /\ ego_lane_history = <<>>
    /\ result = InitialResult(<<>>)
    /\ analyses = <<>>
    /\ risk_calls = 0
    /\ risk_objects = <<>>
    /\ absent_frames = <<>>
    /\ frame_widths = {}

\* IntelligentCollisionPredictor.analyze_collision_risk(objects, frame): what it does
\* to the analyzer and to the lane detector
AnalyzeStep(objects, frame) ==
    /\ risk_calls' = risk_calls + 1
    /\ frame_widths' = frame_widths \cup {frame.width}
    /\ risk_objects' = objects
    /\ IF objects = <<>>
       THEN /\ result' = InitialResult(objects)
            /\ analyses' = <<>>
            /\ UNCHANGED <<vehicle_history, ego_lane_history>>
       ELSE LET lanes == DetectLanes(frame, ego_lane_history)
                lane_info == lanes.lane_info
                vehicles == SelectSeq(objects, IsVehicle)
            IN  /\ ego_lane_history' = lanes.history
                /\ IF vehicles = <<>>
                   THEN /\ result' = [InitialResult(objects) EXCEPT !.lane_info = <<lane_info>>]
                        /\ analyses' = <<>>
                        /\ UNCHANGED vehicle_history
                   ELSE LET all == AnalyzeVehicles(vehicles, lane_info, frame.height,
                                                   vehicle_history)
                            threats == SelectSeq(all.analyses, LAMBDA a : a.is_threat)
                            top == PrimaryThreat(threats, 0, <<>>)
                            risk_level == RiskLevel(top.threat_score)
                        IN  /\ vehicle_history' = all.history
                            /\ analyses' = all.analyses
                            /\ result' =
                                 [risk_level |-> risk_level,
                                  threat_score |-> top.threat_score,
                                  primary_threat |-> top.primary_threat,
                                  threatening_objects |-> threats,
                                  recommendations |->
                                      GenerateIntelligentRecommendations(risk_level, threats,
                                                                         lane_info),
                                  total_objects |-> Len(objects),
                                  lane_info |-> <<lane_info>>,
                                  same_lane_threats |-> CountType(threats, "same_lane"),
                                  oncoming_threats |-> CountType(threats, "oncoming"),
                                  lane_change_threats |-> CountType(threats, "lane_change")]
    /\ absent_frames' =
          [id \in DOMAIN vehicle_history' |->
              IF \E i \in 1..Len(analyses') : analyses'[i].object.track_id = id THEN 0
              ELSE absent_frames[id] + 1]

\* IntelligentCollisionPredictor.analyze_collision_risk(objects, frame)
AnalyzeCollisionRisk(objects, frame) ==
    /\ AnalyzeStep(objects, frame)
    /\ UNCHANGED <<tracker_vars, assoc_vars, assess_vars, iou_vars, object_vars, loop_vars>>

\* one analyzed frame
RiskFrame ==
    /\ risk_calls < MaxRiskCalls
    /\ \E objects \in ObjectLists, frame \in Frames : AnalyzeCollisionRisk(objects, frame)

\* a frame of the given width in which both markings of the ego lane are found
MarkedFrame(width) ==
    [height |-> 100, width |-> width,
     lines |-> <<<<20, 40, 40, 10>>, <<width - 40, 10, width - 20, 40>>, <<10, 30, 90, 31>>>>]

\* a bus of track 4 on the right that moves 25 px to the left (and 87 px down)
MergingBus ==
    { Obj(4, "bus", VBox(100, 50, 20)), Obj(4, "bus", VBox(100, 3, 6)),
      Obj(4, "bus", VBox(75, 50, 20)), Obj(4, "bus", VBox(75, 90, 20)) }

\* frames with the bus, a car ahead at 6, 12 or 15 m, the bus beside a car, or a
\* car and a truck both ahead at 6 m
MergeObjectLists ==
    {<<>>} \cup {<<o>> : o \in MergingBus}
           \cup { <<Obj(1, "car", VBox(50, 50, 20))>>, <<Obj(1, "car", VBox(50, 40, 10))>>,
                  <<Obj(1, "car", VBox(50, 36, 8))>>,
                  <<Obj(4, "bus", VBox(75, 50, 20)), Obj(1, "car", VBox(50, 50, 20))>>,
                  <<Obj(1, "car", VBox(50, 40, 10)), Obj(4, "bus", VBox(75, 90, 20))>>,
                  <<Obj(1, "car", VBox(50, 50, 20)), Obj(3, "truck", VBox(50, 50, 20))>> }

\* one analyzed frame with both lane markings found
MergeFrame ==
    /\ risk_calls < MaxMergeCalls
    /\ \E objects \in MergeObjectLists : AnalyzeCollisionRisk(objects, MarkedFrame(100))

\* frames of a longer run: nothing tracked, or one of two vehicles
LongRunObjectLists ==
    { <<>>, <<Obj(1, "car", VBox(50, 50, 20))>>, <<Obj(3, "truck", VBox(15, 50, 20))>> }

\* frames without lane markings: the Hough transform finds nothing, a flat edge, or
\* one marking only
UnmarkedLines ==
    { <<>>, <<<<10, 30, 90, 31>>>>, <<<<20, 40, 40, 10>>, <<10, 30, 90, 31>>>> }

\* one analyzed frame of a longer run on a road without lane markings
LongRunFrame ==
    /\ risk_calls < MaxLongRunCalls
    /\ \E objects \in LongRunObjectLists, lines \in UnmarkedLines :
          AnalyzeCollisionRisk(objects, [height |-> 100, width |-> 100, lines |-> lines])

\* analyzed frames in SpecRiskWidths
MaxWidthCalls == 5

\* a car of track 5 left of the left marking, 5 px lower in every analyzed frame
LeftCar == Obj(5, "car", VBox(15, 30 + 5 * risk_calls, 20))

\* one analyzed frame 100 or 180 px wide with both markings found, showing that car
\* or a pedestrian
WidthFrame ==
    /\ risk_calls < MaxWidthCalls
    /\ \E width \in {100, 180},
          objects \in { <<LeftCar>>, <<Obj(2, "person", VBox(50, 50, 20))>> } :
          AnalyzeCollisionRisk(objects, MarkedFrame(width))

(***************************************************************************)
(* The threat assessment of one vehicle on its own: _analyze_vehicle_threat*)
(* from the lane of the vehicle, the lane information, the positions kept  *)
(* for its track and its distance                                          *)
(***************************************************************************)
\* what detect_lanes reports on such a frame: with no earlier frame (no ego lane
\* change), after four frames 180 px wide (ego moved left), and on a frame 180 px
\* wide after four 100 px wide (ego moved right)
LaneInfos ==
    { DetectLanes(MarkedFrame(100), <<>>).lane_info,
      DetectLanes(MarkedFrame(100), <<90, 90, 90, 90>>).lane_info,
      DetectLanes(MarkedFrame(180), <<50, 50, 50, 50>>).lane_info }

\* what get_vehicle_lane may return with at most one pair of boundaries
VehicleLanes == {-1, 0, 1}

\* twice the movement over the kept positions: still, 1.5, 30, 60 and 100 px down, 30 px up;
\* 25 px right or left
MoveDown == {0, 3, 60, 120, 200, -60}
MoveRight == {0, 50, -50}

\* the positions kept for the track: one (too few to judge), or three
PositionLists ==
    { <<<<100, 100>>>> } \cup
    { <<<<100, 100>>, <<100, 100>>, <<100 + dx2, 100 + dy2>>>> :
         dx2 \in MoveRight, dy2 \in MoveDown }

\* distances in cm, as _estimate_distance_fast gives them for boxes 20, 10, 8 and 6 px high
Distances == {600, 1200, 1500, 2000}

NoAssessResult ==
    [done |-> FALSE, movement |-> MovementInfo(<<>>), ttc |-> TtcInf,
     base |-> [is_threat |-> FALSE, threat_type |-> "none", threat_score |-> 0],
     final |-> [is_threat |-> FALSE, threat_type |-> "none", threat_score |-> 0]]

AssessIdle ==
    /\ assess_in = [vehicle_lane |-> 0, lane_info |-> NewLaneInfo([height |-> 100, width |-> 100]),
                    positions |-> <<>>, distance |-> 5000]
    /\ assess_out = NoAssessResult

\* _analyze_vehicle_threat from "Analyze vehicle movement pattern" on
RunAssess ==
    /\ ~assess_out.done
    /\ LET movement == MovementInfo(assess_in.positions)
           ttc == CalculateIntelligentTtc(assess_in.distance, movement)
       IN  assess_out' =
             [done |-> TRUE, movement |-> movement, ttc |-> ttc,
              base |-> BaseThreatAssessment(assess_in.vehicle_lane, assess_in.lane_info,
                                            movement, assess_in.distance),
              final |-> AssessActualThreat(assess_in.vehicle_lane, assess_in.lane_info,
                                           movement, assess_in.distance, ttc)]
    /\ UNCHANGED <<assess_in, tracker_vars, assoc_vars, risk_vars, iou_vars, object_vars, loop_vars>>

(***************************************************************************)
(* _calculate_iou_fast on its own, on any two boxes of a small grid        *)
(* (degenerate and inverted boxes included)                                *)
(***************************************************************************)
\* largest coordinate of a box given to _calculate_iou_fast in SpecIou
MaxCoord == 3

IouBoxes == (0..MaxCoord) \X (0..MaxCoord) \X (0..MaxCoord) \X (0..MaxCoord)

NoIouResult == [done |-> FALSE, ab |-> <<0, 1>>, ba |-> <<0, 1>>, aa |-> <<0, 1>>]

IouIdle ==
    /\ iou_in = [a |-> <<0, 0, 0, 0>>, b |-> <<0, 0, 0, 0>>]
    /\ iou_out = NoIouResult

\* _calculate_iou_fast(a, b), (b, a) and (a, a)
RunIou ==
    /\ ~iou_out.done
    /\ iou_out' = [done |-> TRUE,
                   ab |-> CalculateIouFast(iou_in.a, iou_in.b),
                   ba |-> CalculateIouFast(iou_in.b, iou_in.a),
                   aa |-> CalculateIouFast(iou_in.a, iou_in.a)]
    /\ UNCHANGED <<iou_in, tracker_vars, assoc_vars, risk_vars, assess_vars, object_vars, loop_vars>>

(***************************************************************************)
(* TrackedObject (modules/analyzers/tracker.py): its box, age and position *)
(* history.  A sample is <<timestamp, 2 * center_x, 2 * center_y>>.  The   *)
(* velocity, distance and risk fields update_position derives afterwards   *)
(* do not feed back into the history and are left out.                     *)
(***************************************************************************)
TRACK_HISTORY_LENGTH == 10

\* updates of the TrackedObject in SpecHistory
MaxTicks == 12
\* analyzed frames in SpecHistory
MaxHistoryCalls == 12

\* TrackedObject.__init__
TrackedObject(box, track_id, class_name, timestamp) ==
    [box |-> box, track_id |-> track_id, class_name |-> class_name, age |-> 0,
     position_history |-> <<<<timestamp, box[1] + box[3], box[2] + box[4]>>>>]

\* position_history[-max_history:] with the cut made one sample early
LastSamplesShort(history, max_history) ==
    IF Len(history) >= max_history
    THEN SubSeq(history, Len(history) - max_history + 2, Len(history))
    ELSE history

\* position_history[-max_history:] when the list is longer than max_history
LastSamples(history, max_history) ==
    IF Len(history) > max_history
    THEN SubSeq(history, Len(history) - max_history + 1, Len(history))
    ELSE history

\* TrackedObject.update_position
UpdatePosition(obj, new_box, timestamp) ==
    [obj EXCEPT !.box = new_box,
                !.age = @ + 1,
                !.position_history =
                    LastSamples(Append(@, <<timestamp, new_box[1] + new_box[3],
                                            new_box[2] + new_box[4]>>),
                                TRACK_HISTORY_LENGTH)]

ObjectIdle ==
    /\ clock = 1
    /\ track_obj = TrackedObject(<<40, 40, 60, 60>>, 1, "car", 1)

\* the boxes a TrackedObject may be moved to
ObjectBoxes == { <<40, 42, 60, 62>> }

\* one update_position call, at the next tick of the clock
TrackStep ==
    /\ clock < MaxTicks
    /\ clock' = clock + 1
    /\ \E new_box \in ObjectBoxes : track_obj' = UpdatePosition(track_obj, new_box, clock + 1)
    /\ UNCHANGED <<tracker_vars, assoc_vars, risk_vars, assess_vars, iou_vars, loop_vars>>

\* a car of track 1 that is one pixel lower in every analyzed frame
DescendingCar == Obj(1, "car", VBox(50, 30 + risk_calls, 20))

\* one analyzed frame with that car, alone or behind a pedestrian
HistoryFrame ==
    /\ risk_calls < MaxHistoryCalls
    /\ \E objects \in { <<DescendingCar>>,
                        <<Obj(2, "person", VBox(50, 50, 20)), DescendingCar>> } :
          AnalyzeCollisionRisk(objects, [height |-> 100, width |-> 100, lines |-> <<>>])

(***************************************************************************)
(* PerformanceOptimizedProcessor (main.py): the thread that runs run(),    *)
(* stop() called from the GUI thread, and the two kinds of background work *)
(* on the asyncio loop: the weather analyzer's update loop and the         *)
(* _update_warning_async coroutines.  A detection whose bbox is the empty  *)
(* list is malformed: indexing it raises.                                  *)
(***************************************************************************)
\* frames the camera delivers before its feed ends
MaxLoopFrames == 2
\* analyses the weather update loop publishes
MaxWeatherUpdates == 2

NearCar == [bbox |-> <<40, 20, 60, 80>>, confidence |-> 90, class_name |-> "car"]
BadDetection == [bbox |-> <<>>, confidence |-> 90, class_name |-> "car"]

\* what the detector may return for a frame
LoopInputs == { <<>>, <<NearCar>>, <<NearCar, BadDetection>> }

LoopFrameShape == [height |-> 100, width |-> 100, lines |-> <<>>]

IsMalformed(det) == Len(det.bbox) # 4

\* KalmanTracker.update raises: in _calculate_iou_fast (bbox1[0]) when there are
\* tracks, else in FastKalmanFilter.__init__ (bbox[0]) for a detection that spawns
UpdateRaises(trks, dets) ==
    IF trks # <<>> /\ dets # <<>>
    THEN \E i \in 1..Len(dets) : IsMalformed(dets[i])
    ELSE \E i \in 1..Len(dets) : IsMalformed(dets[i]) /\ SpawnsTrack(dets[i])

\* index of the detection at which the creation loop raises
FirstBadSpawn(dets) ==
    CHOOSE i \in 1..Len(dets) :
        /\ IsMalformed(dets[i]) /\ SpawnsTrack(dets[i])
        /\ \A j \in 1..(i - 1) : ~(IsMalformed(dets[j]) /\ SpawnsTrack(dets[j]))

\* KalmanTracker.update(dets) when it raises: the tracks stay predicted (with tracks
\* held), or the detections before the bad one have spawned (with none held); nothing
\* is pruned or returned and frame_count is not advanced
UpdateFailedStep(dets) ==
    LET predicted == PredictAll(trackers)
        created == IF trackers # <<>> THEN [trackers |-> predicted, next_id |-> next_id]
                   ELSE CreateNew(<<>>, dets, IndexList(FirstBadSpawn(dets) - 1), next_id)
    IN  /\ trackers' = created.trackers
        /\ next_id' = created.next_id
        /\ detections' = dets
        /\ before' = trackers
        /\ assigned_ids' = assigned_ids \o
              [i \in 1..(Len(created.trackers) - Len(predicted)) |->
                  created.trackers[Len(predicted) + i].id]
        /\ UNCHANGED <<frame_count, predicted_bboxes, solver_pairs, matches, unmatched_dets,
                       unmatched_trks, tracked_objects, after_update, evicted_ids>>

\* GeminiWarningGenerator.generate_warning
GenerateWarning(collision_analysis) ==
    CASE collision_analysis.risk_level = "Critical" -> "Immediate brake. Collision imminent."
      [] collision_analysis.risk_level = "High" -> "Brake now. High collision risk."
      [] collision_analysis.risk_level = "Medium" -> "Slow down. Object ahead."
      [] collision_analysis.risk_level = "Low" -> "Stay alert."
      [] OTHER -> ""

\* get_current_analysis that never sees what was published
GetCurrentAnalysisNone(analysis) == <<>>

\* EnhancedWeatherImpactAnalyzer.get_current_analysis
GetCurrentAnalysis(analysis) == analysis

\* _process_frame: "If high risk, we can spawn an async task"
SchedulesWarning(collision_analysis) == collision_analysis.risk_level \in {"High", "Critical"}

LoopIdle ==
    /\ rt_pc = "idle"
    /\ running = FALSE
    /\ camera = "none"
    /\ weather_running = FALSE
    /\ last_analysis = <<>>
    /\ llm_pending = 0
    /\ frames_read = 0
    /\ analysis_data = <<>>
    /\ stop_called = FALSE
    /\ reads_after_stop = 0

UnchangedByLoop == UNCHANGED <<assoc_vars, assess_vars, iou_vars, object_vars>>

\* QThread.start(): run() begins on its own thread
StartThread ==
    /\ rt_pc = "idle"
    /\ rt_pc' = "open_camera"
    /\ UNCHANGED <<running, camera, weather_running, last_analysis, llm_pending, frames_read,
                   analysis_data, stop_called, reads_after_stop>>
    /\ UNCHANGED <<tracker_vars, risk_vars>> /\ UnchangedByLoop

\* run(): cv2.VideoCapture(...); return if it did not open
OpenCamera ==
    /\ rt_pc = "open_camera"
    /\ \E opened \in BOOLEAN :
          IF opened THEN camera' = "open" /\ rt_pc' = "init_weather"
          ELSE camera' = "failed" /\ rt_pc' = "done"
    /\ UNCHANGED <<running, weather_running, last_analysis, llm_pending, frames_read,
                   analysis_data, stop_called, reads_after_stop>>
    /\ UNCHANGED <<tracker_vars, risk_vars>> /\ UnchangedByLoop

\* run(): weather_analyzer.initialize() on the asyncio loop, waited for at most 10 s;
\* the TimeoutError of a loop that does not answer ends run()
InitWeather ==
    /\ rt_pc = "init_weather"
    /\ \E answered \in BOOLEAN :
          IF answered THEN weather_running' = TRUE /\ rt_pc' = "set_running"
          ELSE weather_running' = weather_running /\ rt_pc' = "done"
    /\ UNCHANGED <<running, camera, last_analysis, llm_pending, frames_read,
                   analysis_data, stop_called, reads_after_stop>>
    /\ UNCHANGED <<tracker_vars, risk_vars>> /\ UnchangedByLoop

\* run(): self.running = True
SetRunning ==
    /\ rt_pc = "set_running"
    /\ running' = TRUE
    /\ rt_pc' = "test"
    /\ UNCHANGED <<camera, weather_running, last_analysis, llm_pending, frames_read,
                   analysis_data, stop_called, reads_after_stop>>
    /\ UNCHANGED <<tracker_vars, risk_vars>> /\ UnchangedByLoop

\* run(): while self.running
TestRunning ==
    /\ rt_pc = "test"
    /\ rt_pc' = IF running THEN "read" ELSE "shutdown"
    /\ UNCHANGED <<running, camera, weather_running, last_analysis, llm_pending, frames_read,
                   analysis_data, stop_called, reads_after_stop>>
    /\ UNCHANGED <<tracker_vars, risk_vars>> /\ UnchangedByLoop

\* run(): ret, frame = self.camera.read(); break if not ret
ReadFrame ==
    /\ rt_pc = "read"
    /\ \E ret \in BOOLEAN :
          /\ ret => camera = "open" /\ frames_read < MaxLoopFrames
          /\ IF ret
             THEN /\ frames_read' = frames_read + 1
                  /\ reads_after_stop' = reads_after_stop + (IF stop_called THEN 1 ELSE 0)
                  /\ rt_pc' = "process"
             ELSE /\ UNCHANGED <<frames_read, reads_after_stop>>
                  /\ rt_pc' = "shutdown"
    /\ UNCHANGED <<running, camera, weather_running, last_analysis, llm_pending,
                   analysis_data, stop_called>>
    /\ UNCHANGED <<tracker_vars, risk_vars>> /\ UnchangedByLoop

\* _process_frame(frame) on what the detector returned, when nothing raises
ProcessFrame(dets) ==
    /\ UpdateStep(dets)
    /\ AnalyzeStep(tracked_objects', LoopFrameShape)
    /\ analysis_data' = Append(analysis_data,
          <<[tracked_objects |-> tracked_objects',
             collision_analysis |-> result',
             warning_text |-> GenerateWarning(result'),
             risk_level |-> result'.risk_level,
             weather_analysis |-> GetCurrentAnalysis(last_analysis)]>>)
    /\ llm_pending' = llm_pending + (IF SchedulesWarning(result') THEN 1 ELSE 0)

\* run(): the body of the loop after the read: _process_frame, draw, emit; an
\* exception is logged and reported and the loop goes on
ProcessAndEmit ==
    /\ rt_pc = "process"
    /\ \E dets \in LoopInputs :
          IF UpdateRaises(trackers, dets)
          THEN /\ UpdateFailedStep(dets)
               /\ analysis_data' = Append(analysis_data, <<>>)
               /\ UNCHANGED <<risk_vars, llm_pending>>
          ELSE ProcessFrame(dets)
    /\ rt_pc' = "test"
    /\ UNCHANGED <<running, camera, weather_running, last_analysis, frames_read,
                   stop_called, reads_after_stop>>
    /\ UnchangedByLoop

\* run(): after the loop, weather_analyzer.shutdown() and camera.release()
Shutdown ==
    /\ rt_pc = "shutdown"
    /\ weather_running' = FALSE
    /\ camera' = IF camera = "none" THEN "none" ELSE "released"
    /\ rt_pc' = "done"
    /\ UNCHANGED <<running, last_analysis, llm_pending, frames_read,
                   analysis_data, stop_called, reads_after_stop>>
    /\ UNCHANGED <<tracker_vars, risk_vars>> /\ UnchangedByLoop

\* the steps of the thread that runs run()
RunThread ==
    \/ OpenCamera \/ InitWeather \/ SetRunning \/ TestRunning \/ ReadFrame
    \/ ProcessAndEmit \/ Shutdown

\* PerformanceOptimizedProcessor.stop(), from the GUI thread once the thread was started
Stop ==
    /\ rt_pc # "idle"
    /\ ~stop_called
    /\ stop_called' = TRUE
    /\ running' = FALSE
    /\ camera' = IF camera = "none" THEN "none" ELSE "released"
    /\ UNCHANGED <<rt_pc, weather_running, last_analysis, llm_pending, frames_read,
                   analysis_data, reads_after_stop>>
    /\ UNCHANGED <<tracker_vars, risk_vars>> /\ UnchangedByLoop

\* _background_update_loop: get_enhanced_analysis() sets last_analysis
WeatherPublish ==
    /\ weather_running
    /\ IF last_analysis = <<>> THEN TRUE ELSE last_analysis[1] < MaxWeatherUpdates
    /\ last_analysis' = IF last_analysis = <<>> THEN <<1>> ELSE <<last_analysis[1] + 1>>
    /\ UNCHANGED <<rt_pc, running, camera, weather_running, llm_pending, frames_read,
                   analysis_data, stop_called, reads_after_stop>>
    /\ UNCHANGED <<tracker_vars, risk_vars>> /\ UnchangedByLoop

\* _update_warning_async: one scheduled coroutine finishes
WarningDone ==
    /\ llm_pending > 0
    /\ llm_pending' = llm_pending - 1
    /\ UNCHANGED <<rt_pc, running, camera, weather_running, last_analysis, frames_read,
                   analysis_data, stop_called, reads_after_stop>>
    /\ UNCHANGED <<tracker_vars, risk_vars>> /\ UnchangedByLoop

Init ==
    /\ TrackerInit /\ AssocIdle /\ RiskIdle /\ AssessIdle
    /\ IouIdle /\ ObjectIdle /\ LoopIdle

Next == Frame

Spec == Init /\ [][Next]_vars

DenseNext == DenseFrame

SpecDense == Init /\ [][DenseNext]_vars

AssocInit ==
    /\ TrackerInit
    /\ RiskIdle
    /\ AssessIdle
    /\ IouIdle /\ ObjectIdle /\ LoopIdle
    /\ assoc_in \in [dets : BoxLists, trks : BoxLists]
    /\ assoc_out = NoAssocResult

AssocWideInit ==
    /\ TrackerInit
    /\ RiskIdle
    /\ AssessIdle
    /\ IouIdle /\ ObjectIdle /\ LoopIdle
    /\ assoc_in \in [dets : WideLists, trks : WideLists]
    /\ assoc_out = NoAssocResult

SpecAssocWide == AssocWideInit /\ [][RunAssociate]_vars

AssocNext == RunAssociate

SpecAssoc == AssocInit /\ [][AssocNext]_vars

RiskNext == RiskFrame

SpecRisk == Init /\ [][RiskNext]_vars

MergeNext == MergeFrame

SpecRiskMerge == Init /\ [][MergeNext]_vars

LongRunNext == LongRunFrame

SpecRiskLongRun == Init /\ [][LongRunNext]_vars

AssessInit ==
    /\ TrackerInit
    /\ AssocIdle
    /\ RiskIdle
    /\ IouIdle /\ ObjectIdle /\ LoopIdle
    /\ assess_in \in [vehicle_lane : VehicleLanes, lane_info : LaneInfos,
                       positions : PositionLists, distance : Distances]
    /\ assess_out = NoAssessResult

AssessNext == RunAssess

SpecAssess == AssessInit /\ [][AssessNext]_vars

IouInit ==
    /\ TrackerInit /\ AssocIdle /\ RiskIdle /\ AssessIdle
    /\ ObjectIdle /\ LoopIdle
    /\ iou_in \in [a : IouBoxes, b : IouBoxes]
    /\ iou_out = NoIouResult

IouNext == RunIou

SpecIou == IouInit /\ [][IouNext]_vars

HistoryNext == HistoryFrame \/ TrackStep

SpecHistory == Init /\ [][HistoryNext]_vars

WidthNext == WidthFrame

SpecRiskWidths == Init /\ [][WidthNext]_vars

RealtimeNext == StartThread \/ RunThread \/ Stop \/ WeatherPublish \/ WarningDone

SpecRealtime == Init /\ [][RealtimeNext]_vars

\* the processing thread is a QThread of its own: it runs whenever it can; nothing is
\* assumed of the asyncio loop's tasks
SpecRealtimeFair == Init /\ [][RealtimeNext]_vars /\ WF_vars(RunThread)

(***************************************************************************)
(* Properties of the tracker                                               *)
(***************************************************************************)

\* C1: every new track gets an id greater than every id given before it; no two
\* tracks, live or evicted, share an id, and an evicted id is never given again.
IdsIncreasingNeverReused ==
    /\ \A i, j \in 1..Len(assigned_ids) : i < j => assigned_ids[i] < assigned_ids[j]
    /\ \A i \in 1..Len(assigned_ids) : assigned_ids[i] < next_id
    /\ \A i, j \in 1..Len(trackers) : i # j => trackers[i].id # trackers[j].id
    /\ TrackIds(trackers) \subseteq Range(assigned_ids)
    /\ evicted_ids \subseteq Range(assigned_ids)
    /\ TrackIds(trackers) \cap evicted_ids = {}

\* C1 witness: a track is created in a frame after the one that evicted another.
IdAssignedAfterEviction ==
    /\ \E e \in evicted_ids : e \notin TrackIds(before)
    /\ \E i \in 1..Len(trackers) : trackers[i].id \notin TrackIds(before)

\* C2: after update() every held track has time_since_update <= max_age; a track
\* left unmatched for max_age + 1 frames in a row is removed by that frame's
\* update, and the id of a removed track is in no later output.
EvictedBeyondMaxAge ==
    /\ \A i \in 1..Len(trackers) : trackers[i].time_since_update <= max_age
    /\ \A i \in 1..Len(before) :
          (before[i].time_since_update = max_age /\ ~\E m \in Range(matches) : m[2] = i)
             => (before[i].id \notin TrackIds(trackers) /\ before[i].id \in evicted_ids)
    /\ \A k \in 1..Len(tracked_objects) : tracked_objects[k].track_id \notin evicted_ids

\* C2 witness: a frame with detections and a non-empty output, after an eviction.
OutputAfterEviction ==
    /\ \E e \in evicted_ids : e \notin TrackIds(before)
    /\ detections # <<>>
    /\ tracked_objects # <<>>

UnconfirmedEmittedOnlyWhenMatched ==
    \A k \in 1..Len(tracked_objects) :
        tracked_objects[k].hits < min_hits =>
            \E m \in Range(matches) : before[m[2]].id = tracked_objects[k].track_id

\* C5: in a frame whose one detection overlaps the one track's predicted box with
\* IoU >= iou_threshold, the track keeps its id, is output, and no second track
\* is created.
SingleObjectKeepsItsTrack ==
    ( /\ Len(detections) = 1
      /\ Len(before) = 1
      /\ LET iou == CalculateIouFast(detections[1].bbox, predicted_bboxes[1])
         IN  IouThresholdDen * iou[1] >= IouThresholdNum * iou[2] )
    => /\ Len(trackers) = 1
       /\ trackers[1].id = before[1].id
       /\ Len(tracked_objects) = 1
       /\ tracked_objects[1].track_id = before[1].id
       /\ next_id = assigned_ids[Len(assigned_ids)] + 1
       /\ assigned_ids[Len(assigned_ids)] <= before[1].id

\* C5 witness: the object has moved and its track is matched for the third time.
MovingObjectFollowed ==
    /\ Len(detections) = 1
    /\ Len(before) = 1
    /\ LET iou == CalculateIouFast(detections[1].bbox, predicted_bboxes[1])
       IN  IouThresholdDen * iou[1] >= IouThresholdNum * iou[2]
    /\ detections[1].bbox # before[1].bbox
    /\ Len(trackers) = 1
    /\ trackers[1].hits >= 4

\* C6: the association step returns a partition: each detection and each track is
\* in exactly one of a match and its unmatched list, no index is in two matches,
\* every match has IoU >= iou_threshold, and a pair the solver chose with a lower
\* IoU is reported as an unmatched detection and an unmatched track.
AssociationIsPartition ==
    assoc_out.done =>
      LET nd == Len(assoc_in.dets)
          nt == Len(assoc_in.trks)
          ms == assoc_out.matches
          ud == assoc_out.unmatched_dets
          ut == assoc_out.unmatched_trks
      IN  /\ \A d \in 1..nd :
                ~((d \in Range(ud)) <=> (\E k \in 1..Len(ms) : ms[k][1] = d))
          /\ \A t \in 1..nt :
                ~((t \in Range(ut)) <=> (\E k \in 1..Len(ms) : ms[k][2] = t))
          /\ Range(ud) \subseteq 1..nd
          /\ Range(ut) \subseteq 1..nt
          /\ Cardinality(Range(ud)) = Len(ud)
          /\ Cardinality(Range(ut)) = Len(ut)
          /\ \A k \in 1..Len(ms) : ms[k][1] \in 1..nd /\ ms[k][2] \in 1..nt
          /\ \A k, l \in 1..Len(ms) :
                k # l => (ms[k][1] # ms[l][1] /\ ms[k][2] # ms[l][2])
          /\ \A k \in 1..Len(ms) :
                LET iou == CalculateIouFast(assoc_in.dets[ms[k][1]], assoc_in.trks[ms[k][2]])
                IN  IouThresholdDen * iou[1] >= IouThresholdNum * iou[2]
          /\ \A k \in 1..Len(assoc_out.pairs) :
                LET p == assoc_out.pairs[k]
                    iou == CalculateIouFast(assoc_in.dets[p[1]], assoc_in.trks[p[2]])
                IN  IouThresholdDen * iou[1] < IouThresholdNum * iou[2]
                      => (p[1] \in Range(ud) /\ p[2] \in Range(ut))

\* C6 witness: fewer detections than tracks, and a pair chosen by the solver
\* overlaps but with IoU below the threshold.
SolverPairRejected ==
    /\ assoc_out.done
    /\ Len(assoc_in.dets) < Len(assoc_in.trks)
    /\ \E k \in 1..Len(assoc_out.pairs) :
          LET p == assoc_out.pairs[k]
              iou == CalculateIouFast(assoc_in.dets[p[1]], assoc_in.trks[p[2]])
          IN  /\ iou[1] > 0
              /\ IouThresholdDen * iou[1] < IouThresholdNum * iou[2]

NewTrackPerConfidentUnmatchedDetection ==
    LET fresh == SelectSeq(trackers, LAMBDA t : t.id \notin TrackIds(before))
        conf == SelectSeq(unmatched_dets,
                          LAMBDA d : detections[d].confidence > MinConfidence)
    IN  /\ Len(fresh) = Len(conf)
        /\ Len(trackers) <= Len(before) + Len(conf)
        /\ \A i \in 1..Len(fresh) :
              LET det == detections[conf[i]]
              IN  /\ fresh[i].id = next_id - Len(fresh) + i - 1
                  /\ fresh[i].id \notin evicted_ids
                  /\ fresh[i].hits = 1
                  /\ fresh[i].age = 0
                  /\ fresh[i].time_since_update = 0
                  /\ fresh[i].bbox = det.bbox
                  /\ fresh[i].class_name = det.class_name
                  /\ fresh[i].confidence = det.confidence
                  /\ 2 * fresh[i].state[1] = (det.bbox[1] + det.bbox[3]) * FP
                  /\ 2 * fresh[i].state[2] = (det.bbox[2] + det.bbox[4]) * FP
                  /\ fresh[i].state[3] = 0
                  /\ fresh[i].state[4] = 0

\* C8 witness: of two unmatched detections, the one at confidence 0.5 creates no
\* track and the one above it creates one, beside a track that already existed.
OnlyConfidentDetectionSpawns ==
    /\ Len(detections) = 2
    /\ Len(unmatched_dets) = 2
    /\ Len(before) > 0
    /\ \E d \in 1..2 : detections[d].confidence = MinConfidence
    /\ \E d \in 1..2 : detections[d].confidence > MinConfidence
    /\ Len(trackers) = Len(before) + 1

\* C9: the class_name and confidence output for a track matched in this frame are
\* those of the detection it was matched to.
OutputCarriesMatchedDetectionLabel ==
    \A m \in Range(matches) :
        \A k \in 1..Len(tracked_objects) :
            tracked_objects[k].track_id = before[m[2]].id =>
                /\ tracked_objects[k].class_name = detections[m[1]].class_name
                /\ tracked_objects[k].confidence = detections[m[1]].confidence

(***************************************************************************)
(* Properties of the collision analyzer                                    *)
(***************************************************************************)
\* C10: a vehicle in the ego lane is a threat exactly when it is nearer than the
\* medium distance and not approaching quickly (not approaching, or slower than
\* 2 px/frame); it is then typed same_lane and scored from the tier of its
\* distance (90 below critical, 70 below high, else 50) plus the TTC bonus; a
\* single same-lane vehicle that is not approaching and nearer than the critical
\* distance is typed same_lane, scored 90, and the frame is rated Critical.
SameLaneThreatPolicy ==
    \A i \in 1..Len(analyses) :
        LET a == analyses[i]
            ego_lane == result.lane_info[1].ego_lane_id
            tier == IF a.distance < 100 * CRITICAL_DISTANCE_THRESHOLD THEN 90
                    ELSE IF a.distance < 100 * HIGH_RISK_DISTANCE_THRESHOLD THEN 70
                    ELSE 50
            bonus == IF a.ttc # TtcInf /\ a.ttc < 100 * CRITICAL_TTC_THRESHOLD THEN 20
                     ELSE IF a.ttc # TtcInf /\ a.ttc < 100 * HIGH_RISK_TTC_THRESHOLD THEN 10
                     ELSE 0
        IN  a.vehicle_lane = ego_lane =>
              /\ a.is_threat <=>
                    /\ a.distance < 100 * MEDIUM_RISK_DISTANCE_THRESHOLD
                    /\ (~a.is_approaching \/ a.relative_speed < 100 * SlowApproachSpeed)
              /\ a.is_threat =>
                    /\ a.threat_type = "same_lane"
                    /\ a.threat_score = Min(100, tier + bonus)
              /\ ( /\ Len(analyses) = 1
                   /\ ~a.is_approaching
                   /\ a.distance < 100 * CRITICAL_DISTANCE_THRESHOLD )
                    => /\ a.threat_type = "same_lane"
                       /\ a.threat_score = 90
                       /\ result.risk_level = "Critical"
                       /\ result.threat_score = 90

\* C10 (witness): a single vehicle seen three times in the ego lane, moving away,
\* nearer than the critical distance: same_lane, 90, Critical
StationaryVehicleAheadIsCritical ==
    /\ Len(analyses) = 1
    /\ analyses[1].vehicle_lane = result.lane_info[1].ego_lane_id
    /\ result.lane_info[1].lane_boundaries # <<>>
    /\ analyses[1].movement_direction = "up"
    /\ analyses[1].distance < 100 * CRITICAL_DISTANCE_THRESHOLD
    /\ analyses[1].threat_type = "same_lane"
    /\ analyses[1].threat_score = 90
    /\ result.risk_level = "Critical"

\* C11: a vehicle in the oncoming lane (-1) is a threat exactly when the ego lane
\* change is detected to the left, the vehicle is nearer than the high distance
\* and it is approaching; it is then typed oncoming with score 95 before the TTC
\* bonus; with no ego lane change it is never a threat.
OncomingThreatPolicy ==
    (assess_out.done /\ assess_in.vehicle_lane = -1) =>
      LET li == assess_in.lane_info
          base == assess_out.base
          final == assess_out.final
      IN  /\ base.is_threat <=>
                /\ li.lane_change_detected
                /\ li.lane_change_direction = "left"
                /\ assess_in.distance < 100 * HIGH_RISK_DISTANCE_THRESHOLD
                /\ assess_out.movement.is_approaching
          /\ final.is_threat = base.is_threat
          /\ base.is_threat =>
                /\ base.threat_type = "oncoming"
                /\ base.threat_score = 95
                /\ final.threat_type = "oncoming"
          /\ ~li.lane_change_detected => ~final.is_threat

\* C11 witness: ego changing to the left, an approaching vehicle in lane -1 nearer
\* than the high distance is an oncoming threat.
OncomingVehicleDuringLeftChange ==
    /\ assess_out.done
    /\ assess_in.vehicle_lane = -1
    /\ assess_in.lane_info.lane_change_direction = "left"
    /\ assess_out.final.is_threat
    /\ assess_out.final.threat_type = "oncoming"

\* C12: every vehicle one lane away from the ego lane whose own lane change
\* points toward the ego lane and whose distance is below the medium threshold
\* is a threat of type lane_change with score 60 before the TTC bonus.
AdjacentMergingVehicleIsThreat ==
    LET ego_lane == assess_in.lane_info.ego_lane_id
        lane == assess_in.vehicle_lane
        mv == assess_out.movement
    IN  ( /\ assess_out.done
          /\ Abs(lane - ego_lane) = 1
          /\ mv.is_changing_lanes
          /\ mv.lane_change_direction = (IF lane < ego_lane THEN "right" ELSE "left")
          /\ assess_in.distance < 100 * MEDIUM_RISK_DISTANCE_THRESHOLD )
        => /\ assess_out.base.is_threat
           /\ assess_out.base.threat_type = "lane_change"
           /\ assess_out.base.threat_score = 60

\* C13: with the ego lane change detected, a vehicle in the target lane (ego + 1
\* for right, ego - 1 for left) nearer than the medium distance that none of the
\* same-lane, oncoming and merging cases makes a threat is a threat of type
\* lane_change with score 70 before the TTC bonus.
VehicleInTargetLaneIsThreat ==
    LET li == assess_in.lane_info
        ego_lane == li.ego_lane_id
        lane == assess_in.vehicle_lane
        mv == assess_out.movement
        medium == assess_in.distance < 100 * MEDIUM_RISK_DISTANCE_THRESHOLD
        same_lane == /\ lane = ego_lane
                     /\ medium
                     /\ (~mv.is_approaching \/ mv.relative_speed < 100 * SlowApproachSpeed)
        oncoming == /\ lane = -1
                    /\ li.lane_change_detected
                    /\ li.lane_change_direction = "left"
                    /\ assess_in.distance < 100 * HIGH_RISK_DISTANCE_THRESHOLD
                    /\ mv.is_approaching
        merging == /\ Abs(lane - ego_lane) = 1
                   /\ mv.is_changing_lanes
                   /\ mv.lane_change_direction = (IF lane < ego_lane THEN "right" ELSE "left")
                   /\ medium
    IN  ( /\ assess_out.done
          /\ li.lane_change_detected
          /\ lane = ego_lane + (IF li.lane_change_direction = "right" THEN 1 ELSE -1)
          /\ medium
          /\ ~same_lane /\ ~oncoming /\ ~merging )
        => /\ assess_out.base.is_threat
           /\ assess_out.base.threat_type = "lane_change"
           /\ assess_out.base.threat_score = 70

\* C14: the final score of a threat with score b before the bonus is
\* min(100, b + 20) when the TTC is below the critical TTC, else min(100, b + 10)
\* when it is below the high-risk TTC, else b; a vehicle that is no threat has
\* score 0 and type none whatever its TTC; every score is in 0..100.
TtcBonusCappedAt100 ==
    assess_out.done =>
      LET base == assess_out.base
          final == assess_out.final
          ttc == assess_out.ttc
          below_critical == ttc # TtcInf /\ ttc < 100 * CRITICAL_TTC_THRESHOLD
          below_high == ttc # TtcInf /\ ttc < 100 * HIGH_RISK_TTC_THRESHOLD
      IN  /\ final.is_threat = base.is_threat
          /\ final.threat_type = base.threat_type
          /\ base.is_threat =>
                final.threat_score =
                    IF below_critical
                    THEN (IF base.threat_score + 20 > 100 THEN 100 ELSE base.threat_score + 20)
                    ELSE IF below_high
                    THEN (IF base.threat_score + 10 > 100 THEN 100 ELSE base.threat_score + 10)
                    ELSE base.threat_score
          /\ ~base.is_threat => (final.threat_score = 0 /\ final.threat_type = "none")
          /\ final.threat_score \in 0..100

\* C14 witness: a threat scored 95 with a TTC below the critical TTC ends at 100.
BonusCutAtHundred ==
    /\ assess_out.done
    /\ assess_out.base.is_threat
    /\ assess_out.base.threat_score = 95
    /\ assess_out.ttc # TtcInf
    /\ assess_out.ttc < 100 * CRITICAL_TTC_THRESHOLD
    /\ assess_out.final.threat_score = 100

\* C15: the result's threat_score is the greatest score among the threatening
\* vehicles of the frame (0 with none); risk_level is Critical from 80, High from
\* 60, Medium from 40, Low from 20, else None; and from one result to the next a
\* greater score never gives a lower level.
RiskLevelFromMaxScore ==
    /\ [](LET threats == result.threatening_objects
              score == result.threat_score
          IN  /\ threats = SelectSeq(analyses, LAMBDA a : a.is_threat)
              /\ \A i \in 1..Len(threats) : threats[i].threat_score <= score
              /\ IF threats = <<>> THEN score = 0
                 ELSE \E i \in 1..Len(threats) : threats[i].threat_score = score
              /\ result.risk_level =
                    IF score >= 80 THEN "Critical"
                    ELSE IF score >= 60 THEN "High"
                    ELSE IF score >= 40 THEN "Medium"
                    ELSE IF score >= 20 THEN "Low"
                    ELSE "None")
    /\ [][result'.threat_score > result.threat_score
             => RiskRank(result'.risk_level) >= RiskRank(result.risk_level)]_vars

\* C15 witness: two threats, the second scored higher, at exactly 80: Critical.
SecondThreatSetsTheLevel ==
    /\ Len(result.threatening_objects) = 2
    /\ result.threatening_objects[1].threat_score < result.threatening_objects[2].threat_score
    /\ result.threat_score = 80
    /\ result.risk_level = "Critical"

\* C16: primary_threat is the first vehicle, in input order, whose score is the
\* frame's maximum (None with no threat), and the three counts are the numbers
\* of threatening objects of each type, which add up to their number.
PrimaryThreatFirstOfMaximum ==
    LET threats == result.threatening_objects
        OfType(type) == {i \in 1..Len(threats) : threats[i].threat_type = type}
    IN  /\ threats = SelectSeq(analyses, LAMBDA a : a.is_threat)
        /\ IF threats = <<>> THEN result.primary_threat = <<>>
           ELSE \E k \in 1..Len(threats) :
                  /\ result.primary_threat = <<threats[k].object>>
                  /\ \A i \in 1..Len(threats) : threats[i].threat_score <= threats[k].threat_score
                  /\ \A i \in 1..(k - 1) : threats[i].threat_score < threats[k].threat_score
        /\ result.same_lane_threats = Cardinality(OfType("same_lane"))
        /\ result.oncoming_threats = Cardinality(OfType("oncoming"))
        /\ result.lane_change_threats = Cardinality(OfType("lane_change"))
        /\ result.same_lane_threats + result.oncoming_threats + result.lane_change_threats
              = Len(threats)

\* C16 witness: two threats with the same score; the first is the primary threat.
FirstOfEqualThreatsIsPrimary ==
    /\ Len(result.threatening_objects) = 2
    /\ result.threatening_objects[1].threat_score = result.threatening_objects[2].threat_score
    /\ result.threatening_objects[1].object # result.threatening_objects[2].object
    /\ result.primary_threat = <<result.threatening_objects[1].object>>

\* C17: objects whose class is not car, truck, bus or motorcycle (in any case) are
\* not analyzed: they are never a threatening object or the primary threat, the
\* threats are those of the vehicles alone, their ids get no entry in
\* vehicle_history, and total_objects still counts them.
NonVehiclesIgnored ==
    LET Vehicle(o) == Lower(o.class_name) \in VehicleClasses
        vehicles == SelectSeq(risk_objects, Vehicle)
        threats == result.threatening_objects
    IN  /\ result.total_objects = Len(risk_objects)
        /\ Len(analyses) = Len(vehicles)
        /\ \A i \in 1..Len(analyses) : analyses[i].object = vehicles[i]
        /\ threats = SelectSeq(analyses, LAMBDA a : a.is_threat)
        /\ \A i \in 1..Len(threats) : Vehicle(threats[i].object)
        /\ \A i \in 1..Len(result.primary_threat) : Vehicle(result.primary_threat[i])
        /\ \A o \in ObjectPool : ~Vehicle(o) => o.track_id \notin DOMAIN vehicle_history

\* C17 witness: a person and a car in one frame: two objects, one threat.
PersonBesideCarNotAnalyzed ==
    /\ Len(risk_objects) = 2
    /\ risk_objects[1].class_name = "person"
    /\ result.total_objects = 2
    /\ Len(result.threatening_objects) = 1
    /\ result.risk_level = "Critical"

\* C18: vehicle_history holds no entry for a track id that has not been in the
\* analyzer's input for more than max_age (5) frames in a row.
HistoryPrunedAfterMaxAge ==
    \A id \in DOMAIN vehicle_history : absent_frames[id] <= max_age

\* C19: a call with no tracked object, or with no vehicle among them, returns a
\* result with risk_level None, score 0, no primary threat, no threatening
\* objects, no recommendations, the three counts 0, and total_objects the number
\* of objects given.
NoVehicleGivesEmptyResult ==
    ( /\ risk_calls > 0
      /\ \A i \in 1..Len(risk_objects) :
            Lower(risk_objects[i].class_name) \notin VehicleClasses )
    => /\ result.risk_level = "None"
       /\ result.threat_score = 0
       /\ result.primary_threat = <<>>
       /\ result.threatening_objects = <<>>
       /\ result.recommendations = <<>>
       /\ result.same_lane_threats = 0
       /\ result.oncoming_threats = 0
       /\ result.lane_change_threats = 0
       /\ result.total_objects = Len(risk_objects)

\* C19 witness: after a frame with a vehicle, a frame with only a person.
OnlyPersonAfterVehicle ==
    /\ vehicle_history # <<>>
    /\ Len(risk_objects) = 1
    /\ risk_objects[1].class_name = "person"
    /\ result.total_objects = 1
    /\ result.risk_level = "None"

\* C20: in a frame with vehicles for which the lane detector reports no lane
\* boundaries, the ego lane is 0, no ego lane change is reported, every vehicle
\* is in lane 0, and every threat is of type same_lane.
NoLanesMeansSingleLane ==
    \A k \in 1..Len(result.lane_info) :
        result.lane_info[k].lane_boundaries = <<>> =>
          /\ result.lane_info[k].ego_lane_id = 0
          /\ ~result.lane_info[k].lane_change_detected
          /\ result.lane_info[k].lane_change_direction = "none"
          /\ \A i \in 1..Len(analyses) :
                /\ analyses[i].vehicle_lane = 0
                /\ analyses[i].is_threat => analyses[i].threat_type = "same_lane"
          /\ result.oncoming_threats = 0
          /\ result.lane_change_threats = 0
          /\ result.same_lane_threats = Len(result.threatening_objects)

\* C20 witness: with no boundaries a truck at the left edge of the frame is taken
\* to be in lane 0 and is a same_lane threat.
LeftVehicleTakenAsSameLane ==
    /\ Len(analyses) = 1
    /\ result.lane_info[1].lane_boundaries = <<>>
    /\ analyses[1].object.class_name = "truck"
    /\ analyses[1].vehicle_lane = 0
    /\ analyses[1].threat_type = "same_lane"

FrameNeverWaitsForBackground ==
    /\ [][(Len(analysis_data') > Len(analysis_data)
             /\ analysis_data'[Len(analysis_data')] # <<>>)
          => LET emitted == analysis_data'[Len(analysis_data')][1]
             IN  /\ emitted.weather_analysis = last_analysis
                 /\ llm_pending' = llm_pending
                       + (IF emitted.risk_level \in {"High", "Critical"} THEN 1 ELSE 0)]_vars
    /\ \A n \in 1..MaxLoopFrames : (frames_read = n) ~> (Len(analysis_data) >= n)

\* C22 witness: two frames were emitted at Critical risk while no weather analysis
\* was ever published and neither warning coroutine has finished.
FramesEmittedWithTasksPending ==
    /\ Len(analysis_data) = 2
    /\ \A n \in 1..2 : /\ analysis_data[n] # <<>>
                       /\ analysis_data[n][1].risk_level = "Critical"
                       /\ analysis_data[n][1].weather_analysis = <<>>
    /\ llm_pending = 2
    /\ last_analysis = <<>>

\* C25: after stop() has returned the loop reads at most one more frame (the one that
\* was about to be read).
NoFrameReadAfterStop == reads_after_stop <= 1

\* C23: for any two integer boxes A and B, IoU(A, B) = IoU(B, A) and 0 <= IoU(A, B) <= 1;
\* the IoU is 0 when the boxes share no area (boxes that only touch included);
\* and IoU(A, A) = 1 when A has x1 < x2 and y1 < y2.
IouSymmetricBoundedReflexive ==
    iou_out.done =>
      LET a == iou_in.a
          b == iou_in.b
          overlap_w == Min(a[3], b[3]) - Max(a[1], b[1])
          overlap_h == Min(a[4], b[4]) - Max(a[2], b[2])
      IN  /\ iou_out.ab[2] > 0 /\ iou_out.ba[2] > 0
          /\ iou_out.ab[1] * iou_out.ba[2] = iou_out.ba[1] * iou_out.ab[2]
          /\ 0 <= iou_out.ab[1] /\ iou_out.ab[1] <= iou_out.ab[2]
          /\ (overlap_w <= 0 \/ overlap_h <= 0) => iou_out.ab[1] = 0
          /\ (a[1] < a[3] /\ a[2] < a[4]) => iou_out.aa[1] = iou_out.aa[2]

\* C23 witness: two different boxes that overlap in part, the first twice as large
\* as the second: their IoU is 1/2 in both orders.
PartialOverlapIsHalf ==
    /\ iou_out.done
    /\ iou_in.a = <<0, 0, 2, 2>>
    /\ iou_in.b = <<1, 0, 2, 2>>
    /\ 2 * iou_out.ab[1] = iou_out.ab[2]
    /\ 2 * iou_out.ba[1] = iou_out.ba[2]

\* C24: in every update() call each track held when the call began ages by exactly
\* one; a matched track gets time_since_update 0 and one more hit, any other gets
\* time_since_update one higher and the same hits; a track that is still held
\* afterwards is held with these values.  With no detections no track is created,
\* next_id stays, and the held tracks are those whose time_since_update is now at
\* most max_age.
TrackCountersStepByOne ==
    [][frame_count' = frame_count + 1 =>
         /\ Len(after_update') = Len(trackers)
         /\ \A i \in 1..Len(trackers) :
               LET old == trackers[i]
                   new == after_update'[i]
                   matched == \E k \in 1..Len(matches') : matches'[k][2] = i
               IN  /\ new.id = old.id
                   /\ new.age = old.age + 1
                   /\ IF matched
                      THEN new.time_since_update = 0 /\ new.hits = old.hits + 1
                      ELSE /\ new.time_since_update = old.time_since_update + 1
                           /\ new.hits = old.hits
         /\ \A k \in 1..Len(trackers') :
               trackers'[k].id \in {trackers[i].id : i \in 1..Len(trackers)}
                  => \E i \in 1..Len(trackers) : trackers'[k] = after_update'[i]
         /\ detections' = <<>> =>
               /\ next_id' = next_id
               /\ matches' = <<>>
               /\ trackers' = SelectSeq(after_update',
                                        LAMBDA t : t.time_since_update <= max_age)
      ]_vars

\* C24 witness: of two tracks held when the call began, one was matched and the
\* other was not and coasts.
OneMatchedOneCoasting ==
    /\ Len(before) = 2
    /\ Len(matches) = 1
    /\ Len(unmatched_trks) = 1
    /\ \E i \in 1..Len(trackers) : trackers[i].time_since_update > 0

\* C26: every list of vehicle_history has between 1 and max_history_frames entries and
\* the position_history of a TrackedObject between 1 and TRACK_HISTORY_LENGTH; each
\* update appends the new sample to the samples kept before, dropping the oldest one
\* when the list was full, so the list holds the most recent samples in arrival order.
HistoriesCappedMostRecent ==
    /\ [](/\ \A id \in DOMAIN vehicle_history :
                Len(vehicle_history[id]) \in 1..max_history_frames
          /\ Len(track_obj.position_history) \in 1..TRACK_HISTORY_LENGTH)
    /\ [][risk_calls' # risk_calls =>
            \A k \in 1..Len(analyses') :
               LET id == analyses'[k].object.track_id
                   bbox == analyses'[k].object.bbox
                   sample == <<bbox[1] + bbox[3], bbox[2] + bbox[4]>>
                   old == IF id \in DOMAIN vehicle_history THEN vehicle_history[id] ELSE <<>>
               IN  vehicle_history'[id] =
                      IF Len(old) < max_history_frames THEN old \o <<sample>>
                      ELSE Tail(old) \o <<sample>>]_vars
    /\ [][clock' # clock =>
            LET box == track_obj'.box
                sample == <<clock', box[1] + box[3], box[2] + box[4]>>
                old == track_obj.position_history
            IN  track_obj'.position_history =
                   IF Len(old) < TRACK_HISTORY_LENGTH THEN old \o <<sample>>
                   ELSE Tail(old) \o <<sample>>]_vars

\* C26 witness: both histories are full and have dropped their oldest samples: the
\* analyzer's begins with the car as it was ten frames ago, the TrackedObject's
\* with the sample taken nine ticks ago.
BothHistoriesHaveDroppedSamples ==
    /\ risk_calls > max_history_frames
    /\ Len(vehicle_history[1]) = max_history_frames
    /\ vehicle_history[1][1] = <<100, 2 * (30 + risk_calls - max_history_frames)>>
    /\ clock > TRACK_HISTORY_LENGTH
    /\ Len(track_obj.position_history) = TRACK_HISTORY_LENGTH
    /\ track_obj.position_history[1][1] = clock - TRACK_HISTORY_LENGTH + 1

\* C27: in every result, no threatening object, no primary threat, threat score 0
\* and risk level None go together; every threatening object scores at least 50, so
\* with a threat the level is Medium, High or Critical, and it is never Low.
ThreatFieldsAgree ==
    LET none == result.threatening_objects = <<>>
    IN  /\ none <=> result.primary_threat = <<>>
        /\ none <=> result.threat_score = 0
        /\ none <=> result.risk_level = "None"
        /\ \A i \in 1..Len(result.threatening_objects) :
              result.threatening_objects[i].threat_score >= 50
        /\ ~none => result.risk_level \in {"Medium", "High", "Critical"}
        /\ result.risk_level # "Low"

\* C27 witness: the weakest threat there is, a vehicle ahead between the high-risk and
\* the medium-risk distance, gives score 50 and level Medium.
WeakestThreatIsMedium ==
    /\ Len(result.threatening_objects) = 1
    /\ result.threat_score = 50
    /\ result.risk_level = "Medium"
    /\ result.primary_threat # <<>>

\* C29: the ego lane index is always 0 and a vehicle's lane is -1, 0 or 1; an ego lane
\* change is flagged only in a frame with lane boundaries whose ego x (half the frame
\* width) differs by more than 30 px from the one recorded four lane-bearing frames
\* before; so while every frame has had the same width no lane change is flagged
\* and no oncoming threat is reported.
LaneIndicesAndEgoChange ==
    \A k \in 1..Len(result.lane_info) :
        LET lane_info == result.lane_info[k]
            n == Len(ego_lane_history)
        IN  /\ lane_info.ego_lane_id = 0
            /\ \A i \in 1..Len(analyses) : analyses[i].vehicle_lane \in {-1, 0, 1}
            /\ lane_info.lane_change_detected =>
                  /\ lane_info.lane_boundaries # <<>>
                  /\ n >= 5
                  /\ ego_lane_history[n] = lane_info.frame_width \div 2
                  /\ Abs(ego_lane_history[n] - ego_lane_history[n - 4]) > 30
            /\ Cardinality(frame_widths) <= 1 =>
                  /\ ~lane_info.lane_change_detected
                  /\ result.oncoming_threats = 0
                  /\ \A i \in 1..Len(analyses) : analyses[i].threat_type # "oncoming"

\* C29 witness: after four frames 180 px wide a frame 100 px wide flags an ego lane
\* change to the left, and the car approaching in the left lane is an oncoming threat.
OncomingThreatAfterWidthChange ==
    /\ frame_widths = {100, 180}
    /\ Len(result.lane_info) = 1
    /\ result.lane_info[1].lane_change_detected
    /\ result.lane_info[1].lane_change_direction = "left"
    /\ result.oncoming_threats = 1
    /\ analyses[1].vehicle_lane = -1

\* C28: a result has recommendations exactly when it has threatening objects, and a
\* Critical result has EMERGENCY BRAKE as its first recommendation.
RecommendationsIffThreats ==
    /\ result.recommendations # <<>> <=> result.threatening_objects # <<>>
    /\ result.risk_level = "Critical" =>
          /\ result.recommendations # <<>>
          /\ result.recommendations[1] = "EMERGENCY BRAKE"

\* C28 witness: a car ahead while a bus merges from the right: both a
\* same_lane and a lane_change threat, level High, two recommendations.
TwoThreatTypesTwoRecommendations ==
    /\ result.risk_level = "High"
    /\ result.same_lane_threats = 1
    /\ result.lane_change_threats = 1
    /\ result.recommendations = <<"SLOW DOWN - FOLLOWING TOO CLOSE", "VEHICLE CHANGING LANES">>

\* C30: after the association step no unmatched detection and unmatched track are left
\* whose IoU is at or above iou_threshold.
NoOverlappingLeftovers ==
    assoc_out.done =>
      LET iou == IouMatrix(assoc_in.dets, assoc_in.trks)
      IN  \A d \in Range(assoc_out.unmatched_dets), t \in Range(assoc_out.unmatched_trks) :
             IouThresholdDen * iou[d][t][1] < IouThresholdNum * iou[d][t][2]

\* C30 (amended): an unmatched detection and an unmatched track whose IoU is at or above
\* iou_threshold are left only when the solver had paired each of the two with another
\* partner and both of these pairs were rejected for an IoU below the threshold.
OverlappingLeftoversWerePairedElsewhere ==
    assoc_out.done =>
      LET iou == IouMatrix(assoc_in.dets, assoc_in.trks)
          Below(d, t) == IouThresholdDen * iou[d][t][1] < IouThresholdNum * iou[d][t][2]
      IN  \A d \in Range(assoc_out.unmatched_dets), t \in Range(assoc_out.unmatched_trks) :
             ~Below(d, t) =>
                /\ \E p \in Range(assoc_out.pairs) : p[1] = d /\ p[2] # t /\ Below(p[1], p[2])
                /\ \E p \in Range(assoc_out.pairs) : p[2] = t /\ p[1] # d /\ Below(p[1], p[2])

\* C30 witness: the detection at x = 11 and the track at x = 21 have IoU 1/3 and are
\* both left unmatched: the solver paired each with its other neighbour (IoU 9/31
\* each, together more than 1/3) and both pairs were rejected.
NeighboursLeftUnmatched ==
    /\ assoc_out.done
    /\ assoc_in.dets = << <<11, 0, 31, 1>>, <<32, 0, 52, 1>> >>
    /\ assoc_in.trks = << <<21, 0, 41, 1>>, <<0, 0, 20, 1>> >>
    /\ assoc_out.pairs = << <<1, 2>>, <<2, 1>> >>
    /\ assoc_out.matches = <<>>
    /\ assoc_out.unmatched_dets = <<1, 2>>
    /\ assoc_out.unmatched_trks = <<1, 2>>

====
